---------------------------- MODULE Spec2Model ----------------------------
(***************************************************************************)
(* The request lifecycle of the DocuSeal API client: Client.do (the retry  *)
(* and backoff controller), Client.doOnce (one HTTP exchange) and the      *)
(* circuitBreaker they share.                                              *)
(*                                                                         *)
(* Durations are time.Duration values, in nanoseconds, with the 64 bits   *)
(* and the wrapping arithmetic of Go.  The wall clock (time.Now) is        *)
(* sampled in whole seconds.  A sleep is not measured against that clock:  *)
(* the timer of time.After fires at some point after it is armed, be the   *)
(* sleep nanoseconds or years, and how far the clock has advanced by then  *)
(* is left open.                                                           *)
(***************************************************************************)
EXTENDS Integers, Sequences, FiniteSets, TLC

(***************************************************************************)
(* Bounds of the model.                                                    *)
(***************************************************************************)
\* Largest retry budget (WithRetries) a Client is configured with.
MaxRetriesBound == 2
\* The clock stops after this many seconds.
MaxClock == 32

\* The retry budget of the Client that several goroutines share.
SharedRetries == 1

\* Goroutines that call Get/Post/Put/Delete on the one shared Client.
AllCallers == {"g1", "g2"}
\* Seconds the clock may advance by in one step: 15+15 is exactly the
\* cooldown, 15+16 is just past it.
TickSteps == {15, 16}
\* The base delay, in nanoseconds, of the Client that several goroutines share.
SharedBaseDelay == 2
\* Status codes the server answers with.
Statuses == {200, 401, 403, 404, 429, 500, 503}
\* Response bodies of error statuses.
Bodies == {"", "detail"}
\* How a caller's context ends.
CtxErrs == {"Canceled", "DeadlineExceeded"}

(***************************************************************************)
(* Program constants.                                                      *)
(***************************************************************************)
maxFailures == 5
resetTimeout == 30
Second == 1000000000

(***************************************************************************)
(* int64.  A time.Duration, and an int of the 64-bit builds, is written as *)
(* the four 16-bit words of its two's complement, the least significant    *)
(* first, and the arithmetic is Go's: sums and products wrap, a shift by   *)
(* 64 or more is 0, and / and % truncate toward zero.                      *)
(***************************************************************************)
\* the int64 of a number n with 0 <= n < 2^31
Nat64(n) == <<n % 65536, n \div 65536, 0, 0>>
Zero64 == Nat64(0)
One64 == Nat64(1)

\* x + y + c for a carry c of 0 or 1, word by word with the carries
AddCarry(x, y, c) ==
  LET s1 == x[1] + y[1] + c
      s2 == x[2] + y[2] + (s1 \div 65536)
      s3 == x[3] + y[3] + (s2 \div 65536)
      s4 == x[4] + y[4] + (s3 \div 65536)
  IN <<s1 % 65536, s2 % 65536, s3 % 65536, s4 % 65536>>

\* x + y
Add(x, y) == AddCarry(x, y, 0)
\* ^x
Not(x) == <<65535 - x[1], 65535 - x[2], 65535 - x[3], 65535 - x[4]>>
\* -x
Neg(x) == AddCarry(Not(x), Zero64, 1)
\* x - y
Sub(x, y) == AddCarry(x, Not(y), 1)
\* the int64 of a number n with -2^31 < n < 2^31
Int64(n) == IF n >= 0 THEN Nat64(n) ELSE Neg(Nat64(0 - n))
\* x < 0
IsNeg(x) == x[4] >= 32768
\* x > 0
Positive(x) == x[4] < 32768 /\ x # Zero64

\* word i of x, 0 below the first
Word(x, i) == IF i >= 1 THEN x[i] ELSE 0

\* word i of x << k, k < 64: the low bits of one word of x, moved up, and
\* the high bits of the word below it
ShlWord(x, k, i) ==
  ((Word(x, i - (k \div 16)) % (2 ^ (16 - (k % 16)))) * (2 ^ (k % 16)))
  + (Word(x, i - (k \div 16) - 1) \div (2 ^ (16 - (k % 16))))

\* x << k
Shl(x, k) ==
  IF k >= 64 THEN Zero64
  ELSE <<ShlWord(x, k, 1), ShlWord(x, k, 2), ShlWord(x, k, 3), ShlWord(x, k, 4)>>

\* x * m for a byte m, word by word with the carries
MulByte(x, m) ==
  LET p1 == x[1] * m
      p2 == x[2] * m + (p1 \div 65536)
      p3 == x[3] * m + (p2 \div 65536)
      p4 == x[4] * m + (p3 \div 65536)
  IN <<p1 % 65536, p2 % 65536, p3 % 65536, p4 % 65536>>

\* byte i (from 0) of y
ByteOf(y, i) ==
  IF i % 2 = 0 THEN y[(i \div 2) + 1] % 256 ELSE y[(i \div 2) + 1] \div 256

RECURSIVE MulFrom(_, _, _)
\* x times the bytes of y from byte i on, each in its place
MulFrom(x, y, i) ==
  IF i > 7 THEN Zero64
  ELSE IF ByteOf(y, i) = 0 THEN MulFrom(x, y, i + 1)
  ELSE Add(Shl(MulByte(x, ByteOf(y, i)), 8 * i), MulFrom(x, y, i + 1))

\* x * y
Mul(x, y) == MulFrom(x, y, 0)

\* long division of the unsigned x by n, 0 < n < 2^15, from the highest
\* word down
DivWords(x, n) ==
  LET r4 == x[4] % n
      r3 == (65536 * r4 + x[3]) % n
      r2 == (65536 * r3 + x[2]) % n
  IN [q |-> <<(65536 * r2 + x[1]) \div n, (65536 * r3 + x[2]) \div n,
              (65536 * r4 + x[3]) \div n, x[4] \div n>>,
      r |-> (65536 * r2 + x[1]) % n]

\* x / n and x % n for 0 < n < 2^15: the quotient is an int64, the remainder
\* a number with the sign of x
Quo(x, n) ==
  IF IsNeg(x)
    THEN [q |-> Neg(DivWords(Neg(x), n).q), r |-> 0 - DivWords(Neg(x), n).r]
    ELSE DivWords(x, n)

\* x / Second and x % Second, 10^9 being 1000 * 1000 * 1000
QuoSecond(x) ==
  LET a == Quo(x, 1000)
      b == Quo(a.q, 1000)
      c == Quo(b.q, 1000)
  IN [q |-> c.q, r |-> a.r + 1000 * b.r + 1000000 * c.r]

\* x < y
Less(x, y) ==
  IF IsNeg(x) # IsNeg(y) THEN IsNeg(x)
  ELSE \E i \in 1 .. 4 :
         /\ x[i] < y[i]
         /\ \A k \in (i + 1) .. 4 : x[k] = y[k]

\* the number an int64 x with 0 <= x < 2^31 stands for
Num(x) == x[1] + 65536 * x[2]

\* the number of bits of x > 0 up to its highest one that is set, and 0 for 0
BitLen(x) ==
  LET S == {i \in 1 .. 4 : x[i] # 0}
      top == CHOOSE i \in S : \A k \in S : k <= i
  IN IF S = {} THEN 0
     ELSE 16 * (top - 1)
          + (CHOOSE n \in 1 .. 16 : 2 ^ (n - 1) <= x[top] /\ x[top] < 2 ^ n)

AuthReason == "invalid API key or insufficient permissions"

\* The zero time.Time of a breaker that never recorded a failure: longer ago
\* than any cooldown.
ZeroTime == 0 - resetTimeout - 1

(***************************************************************************)
(* Error values.                                                           *)
(***************************************************************************)
\* an error value; retryAfter is the RetryAfter of a *RateLimitError, an int
MkErr(k, n, t, w) ==
  [kind |-> k, code |-> n, text |-> t, cause |-> w, retryAfter |-> Zero64]
Nil == MkErr("nil", 0, "", "")
CircuitBreakerError == MkErr("CircuitBreakerError", 0, "", "")
AuthError(reason) == MkErr("AuthError", 0, reason, "")
RateLimitError(retryAfter) ==
  [MkErr("RateLimitError", 0, "", "") EXCEPT !.retryAfter = retryAfter]
APIError(status, body) == MkErr("APIError", status, body, "")
\* text is the Field, cause the Message
ValidationError(field, message) == MkErr("ValidationError", 0, field, message)
\* ctx.Err(): context.Canceled or context.DeadlineExceeded itself.
CtxErr(e) == MkErr("context", 0, e, "")
\* fmt.Errorf("<msg>: %w", cause)
Wrapped(msg, w) == MkErr("wrapped", 0, msg, w)

(***************************************************************************)
(* circuitBreaker.  Every method runs with cb.mu held, so each is one      *)
(* atomic step on (failures, lastFailure).                                 *)
(***************************************************************************)
reset(f) == 0

\* time.Since(cb.lastFailure) at clock t
Since(lf, t) == t - lf

\* mutant: the threshold is compared with > instead of >=
isOpen_OffByOne(f, lf, t) ==
  IF f > maxFailures
    THEN IF Since(lf, t) > resetTimeout
           THEN [open |-> FALSE, failures |-> reset(f)]
           ELSE [open |-> TRUE, failures |-> f]
    ELSE [open |-> FALSE, failures |-> f]

\* mutant: an open breaker never closes again (no cooldown check)
isOpen_NeverCools(f, lf, t) ==
  IF f >= maxFailures
    THEN [open |-> TRUE, failures |-> f]
    ELSE [open |-> FALSE, failures |-> f]

\* mutant: the cooldown comparison is inverted, so the breaker resets inside
\* the cooldown instead of after it
isOpen_ResetsEarly(f, lf, t) ==
  IF f >= maxFailures
    THEN IF Since(lf, t) <= resetTimeout
           THEN [open |-> FALSE, failures |-> reset(f)]
           ELSE [open |-> TRUE, failures |-> f]
    ELSE [open |-> FALSE, failures |-> f]

\* mutant: the open breaker is reported but not honoured once the counter
\* is over the threshold
isOpen_OnlyAtThreshold(f, lf, t) ==
  IF f = maxFailures
    THEN IF Since(lf, t) > resetTimeout
           THEN [open |-> FALSE, failures |-> reset(f)]
           ELSE [open |-> TRUE, failures |-> f]
    ELSE [open |-> FALSE, failures |-> f]

\* mutant: half-open after the cooldown: the call is let through on trial,
\* one failure away from the threshold
isOpen_HalfOpen(f, lf, t) ==
  IF f >= maxFailures
    THEN IF Since(lf, t) > resetTimeout
           THEN [open |-> FALSE, failures |-> maxFailures - 1]
           ELSE [open |-> TRUE, failures |-> f]
    ELSE [open |-> FALSE, failures |-> f]

\* mutant: the breaker closes when exactly the cooldown has passed, not
\* only after it
isOpen_CooldownInclusive(f, lf, t) ==
  IF f >= maxFailures
    THEN IF Since(lf, t) >= resetTimeout
           THEN [open |-> FALSE, failures |-> reset(f)]
           ELSE [open |-> TRUE, failures |-> f]
    ELSE [open |-> FALSE, failures |-> f]

\* mutant: a refused call is counted as one more failure
isOpen_RefusalCounts(f, lf, t) ==
  IF f >= maxFailures
    THEN IF Since(lf, t) > resetTimeout
           THEN [open |-> FALSE, failures |-> reset(f)]
           ELSE [open |-> TRUE, failures |-> f + 1]
    ELSE [open |-> FALSE, failures |-> f]

isOpen(f, lf, t) ==
  IF f >= maxFailures
    THEN IF Since(lf, t) > resetTimeout
           THEN [open |-> FALSE, failures |-> reset(f)]
           ELSE [open |-> TRUE, failures |-> f]
    ELSE [open |-> FALSE, failures |-> f]

\* mutant: a success takes one failure off the counter instead of all
recordSuccess_Decrements(f) == IF f > 0 THEN f - 1 ELSE 0

recordSuccess(f) == reset(f)

recordFailure(f, lf, t) == [failures |-> f + 1, lastFailure |-> t]

\* WithRetryBaseDelay values (any d > 0 is accepted): 1 ns, 4 ns, the
\* default of one second, and 2^62 ns, which doubles to 2^63.
BaseDelays == {Int64(1), Int64(4), Int64(Second), Shl(One64, 62)}

(***************************************************************************)
(* Backoff arithmetic of Client.do.                                        *)
(***************************************************************************)
\* c.baseDelay * time.Duration(1<<attempt)
BackoffDelay(bd, a) == Mul(bd, Shl(One64, a))
\* int64(delay / 2)
MaxJitter(delay) == Quo(delay, 2).q
\* rand.Int64N(n) panics unless n > 0
Int64NPanics(n) == ~Positive(n)
\* the values rand.Int64N(n) can return: every one from least to most
Int64N(n) == [least |-> Zero64, most |-> Sub(n, One64)]
\* time.After(delay + jitter) for the jitters rand.Int64N can give: the timer
\* is armed with one of the durations from least to most
After(delay, jitter) ==
  [least |-> Add(delay, jitter.least), most |-> Add(delay, jitter.most)]
\* no timer is armed
NoTimer == [least |-> Zero64, most |-> Zero64]

\* int(d.Seconds()).  Seconds is float64(d / Second) + float64(d % Second) /
\* 1e9: the whole seconds are exact in a float64, and the sum is rounded to
\* the 53 bits of one, so from 2^23 seconds on a duration that falls short
\* of the next whole second by at most half the spacing of the float64s
\* there comes out as that second.  int() drops the fraction that is left.
IntSeconds(d) ==
  LET s == QuoSecond(d)
      mag == IF IsNeg(s.q) THEN Neg(s.q) ELSE s.q
      e == BitLen(mag) - 1
      short == Second - (IF s.r < 0 THEN 0 - s.r ELSE s.r)
      up == /\ s.r # 0
            /\ e >= 23
            /\ short <= Second \div (2 ^ (53 - e))
  IN IF ~up THEN s.q
     ELSE IF IsNeg(d) THEN Sub(s.q, One64) ELSE Add(s.q, One64)

\* mutant: the wait reported is the base delay, not the last backoff step
RetryAfter_FromBaseDelay(bd, mr) == IntSeconds(bd)

\* int((c.baseDelay * time.Duration(1<<c.maxRetries)).Seconds())
RetryAfter(bd, mr) == IntSeconds(BackoffDelay(bd, mr))


(***************************************************************************)
(* State.                                                                  *)
(***************************************************************************)
VARIABLES
  maxRetries,   \* Client.maxRetries
  baseDelay,    \* Client.baseDelay, nanoseconds
  failures,     \* circuitBreaker.failures
  lastFailure,  \* circuitBreaker.lastFailure, seconds on the clock
  now,          \* time.Now(), seconds
  crashed,      \* the process died of an unrecovered panic
  call,         \* per goroutine: its call of Client.do in progress
  mu,           \* circuitBreaker.mu: the goroutine inside a breaker method
  thread,       \* per goroutine: the breaker method it is running
  seq,          \* the breaker methods in the order they held cb.mu
  heap,         \* the circuitBreaker objects allocated so far
  clients,      \* the Clients constructed so far
  actor,        \* the Client the last operation went through
  probe         \* a pure function's input and the value it computed

\* what the request lifecycle of one Client leaves alone
aux == <<mu, thread, seq, heap, clients, actor, probe>>

vars == <<maxRetries, baseDelay, failures, lastFailure, now, crashed, call,
          mu, thread, seq, heap, clients, actor, probe>>

Callers == DOMAIN call

(***************************************************************************)
(* One call of Client.do.                                                  *)
(*   pc      where the goroutine is: "idle" (no call), "attempt" (about to *)
(*           run doOnce), "select" (time.After is armed, the backoff       *)
(*           select is about to be evaluated), "parked" (blocked in the    *)
(*           select, no case was ready), "done" (returned err), "panic"    *)
(*   attempt the loop variable of do                                       *)
(*   ctx     "none" | "live" | the way the caller's context ended          *)
(*   timer   the sleepDurations time.After may be handed, NoTimer when none *)
(*   fired   the timer's channel is ready                                  *)
(*   err     the error do returned                                         *)
(* and, kept for the properties:                                           *)
(*   sent    network attempts (HTTP exchanges started) of this call        *)
(*   seen    status codes of the responses doOnce read and, below 400,     *)
(*           decoded for this call, in order                               *)
(*   touched this call's own steps changed failures or lastFailure         *)
(*   gate    how the breaker stood when do was entered: "closed" (counter  *)
(*           below the threshold), "open" (at or over it, cooldown not     *)
(*           elapsed), "cooled" (at or over it, cooldown elapsed)          *)
(***************************************************************************)
NoCall ==
  [pc |-> "idle", attempt |-> 0, ctx |-> "none", timer |-> NoTimer, fired |-> FALSE,
   err |-> Nil, sent |-> 0, seen |-> << >>, touched |-> FALSE,
   gate |-> "none"]

\* how the breaker stands at clock t
Standing(f, lf, t) ==
  IF f < maxFailures THEN "closed"
  ELSE IF t - lf <= resetTimeout THEN "open" ELSE "cooled"

\* do returns e
Returned(cr, e) == [cr EXCEPT !.pc = "done", !.err = e, !.timer = NoTimer, !.fired = FALSE]

(***************************************************************************)
(* Client.doOnce: what one invocation can come to.                         *)
(*   "request"   json.Marshal failed; the body is the same on every        *)
(*               attempt, so this can only happen on the first             *)
(*   "create"    http.NewRequestWithContext failed (method or URL); only   *)
(*               on the first attempt, for the same reason                 *)
(*   "refused"   c.HTTP.Do found the context already done and sent nothing *)
(*   "transport" c.HTTP.Do failed with the context live: cause says        *)
(*               whether the failure is a timeout (HTTP.Timeout ran out,   *)
(*               the connection timed out) or not (refused, DNS)           *)
(*   "cancelled" the context ended during the exchange (cause says how)    *)
(*   "read"      io.ReadAll of the response body failed: the connection    *)
(*               broke (cause ""), HTTP.Timeout ran out (a timeout) or the *)
(*               context ended (cause says how)                            *)
(*   "decode"    a status < 400 whose body does not decode                 *)
(*   "response"  a status and a body; < 400 decodes                        *)
(***************************************************************************)
Outcome(k, s, b, w) == [kind |-> k, status |-> s, body |-> b, cause |-> w]

\* How the transport fails: with an error whose Timeout() is true, or with
\* one whose Timeout() is false.
TransportErrs == {"net.timeout", "net.refused"}

Outcomes(cr) ==
  (IF cr.attempt = 0
     THEN {Outcome("request", 0, "", ""), Outcome("create", 0, "", "")}
     ELSE {})
  \cup
  (IF cr.ctx # "live"
     THEN {Outcome("refused", 0, "", cr.ctx)}
     ELSE {Outcome("transport", 0, "", e) : e \in TransportErrs}
          \cup {Outcome("cancelled", 0, "", e) : e \in CtxErrs}
          \cup {Outcome("read", 0, "", e) : e \in {"", "net.timeout"} \cup CtxErrs}
          \cup {Outcome("decode", 200, "", "")}
          \cup {Outcome("response", s, b, "") : s \in Statuses, b \in Bodies})

\* whether c.HTTP.Do put a request on the network
Sends(out) ==
  out.kind \in {"transport", "cancelled", "read", "decode", "response"}

\* mutant: a context that ends during the exchange is handed on as it is
doOnce_PassesCtxErr(out) ==
  CASE out.kind = "request"   -> Wrapped("failed to marshal request body", "")
    [] out.kind = "create"    -> Wrapped("failed to create request", "")
    [] out.kind = "refused"   -> Wrapped("request failed", out.cause)
    [] out.kind = "transport" -> Wrapped("request failed", out.cause)
    [] out.kind = "cancelled" -> CtxErr(out.cause)
    [] out.kind = "read"      -> Wrapped("failed to read response", out.cause)
    [] out.kind = "decode"    -> Wrapped("unexpected API response format", "")
    [] OTHER -> IF out.status >= 400 THEN APIError(out.status, out.body) ELSE Nil

\* the error doOnce returns
doOnce(out) ==
  CASE out.kind = "request"   -> Wrapped("failed to marshal request body", "")
    [] out.kind = "create"    -> Wrapped("failed to create request", "")
    [] out.kind = "refused"   -> Wrapped("request failed", out.cause)
    [] out.kind = "transport" -> Wrapped("request failed", out.cause)
    [] out.kind = "cancelled" -> Wrapped("request failed", out.cause)
    [] out.kind = "read"      -> Wrapped("failed to read response", out.cause)
    [] out.kind = "decode"    -> Wrapped("unexpected API response format", "")
    [] OTHER -> IF out.status >= 400 THEN APIError(out.status, out.body) ELSE Nil


(***************************************************************************)
(* The body of do's retry loop for one attempt: doOnce came to `out`.       *)
(* Yields the call afterwards, what the breaker is told ("success",        *)
(* "failure", "none") and whether the goroutine panicked.                  *)
(***************************************************************************)
Step(cr, told, p) == [call |-> cr, cb |-> told, panic |-> p]

\* mutant: the 429 branch reports the exhausted retries to the breaker
rateLimited_CountsFailure(cr, mr, bd) ==
  IF cr.attempt < mr
    THEN LET delay == BackoffDelay(bd, cr.attempt)
             maxJitter == MaxJitter(delay)
         IN IF Int64NPanics(maxJitter)
              THEN Step([cr EXCEPT !.pc = "panic"], "none", TRUE)
              ELSE Step([cr EXCEPT !.pc = "select", !.timer = After(delay, Int64N(maxJitter))], "none", FALSE)
    ELSE Step(Returned(cr, RateLimitError(RetryAfter(bd, mr))), "failure", FALSE)

\* mutant: the retry budget is tested with <=
rateLimited_OneMore(cr, mr, bd) ==
  IF cr.attempt <= mr
    THEN LET delay == BackoffDelay(bd, cr.attempt)
             maxJitter == MaxJitter(delay)
         IN IF Int64NPanics(maxJitter)
              THEN Step([cr EXCEPT !.pc = "panic"], "none", TRUE)
              ELSE Step([cr EXCEPT !.pc = "select", !.timer = After(delay, Int64N(maxJitter))], "none", FALSE)
    ELSE Step(Returned(cr, RateLimitError(RetryAfter(bd, mr))), "none", FALSE)

\* the 429 branch
rateLimited(cr, mr, bd) ==
  IF cr.attempt < mr
    THEN LET delay == BackoffDelay(bd, cr.attempt)
             maxJitter == MaxJitter(delay)
         IN IF Int64NPanics(maxJitter)
              THEN Step([cr EXCEPT !.pc = "panic"], "none", TRUE)
              ELSE Step([cr EXCEPT !.pc = "select", !.timer = After(delay, Int64N(maxJitter))], "none", FALSE)
    ELSE Step(Returned(cr, RateLimitError(RetryAfter(bd, mr))), "none", FALSE)

\* mutant: an auth failure is returned without telling the breaker
classify_AuthNotCounted(cr, e, mr, bd) ==
  IF e.code = 401 \/ e.code = 403
    THEN Step(Returned(cr, AuthError(AuthReason)), "none", FALSE)
    ELSE IF e.code = 429
      THEN rateLimited(cr, mr, bd)
      ELSE Step(Returned(cr, e), IF e.code >= 500 THEN "failure" ELSE "none", FALSE)

\* mutant: the server-error test is > 500 instead of >= 500
classify_500NotCounted(cr, e, mr, bd) ==
  IF e.code = 401 \/ e.code = 403
    THEN Step(Returned(cr, AuthError(AuthReason)), "failure", FALSE)
    ELSE IF e.code = 429
      THEN rateLimited(cr, mr, bd)
      ELSE Step(Returned(cr, e), IF e.code > 500 THEN "failure" ELSE "none", FALSE)

\* mutant: every error status counts as a failure, not only 500 and above
classify_ClientErrorCounted(cr, e, mr, bd) ==
  IF e.code = 401 \/ e.code = 403
    THEN Step(Returned(cr, AuthError(AuthReason)), "failure", FALSE)
    ELSE IF e.code = 429
      THEN rateLimited(cr, mr, bd)
      ELSE Step(Returned(cr, e), IF e.code >= 400 THEN "failure" ELSE "none", FALSE)

\* the branches on an *APIError
classify(cr, e, mr, bd) ==
  IF e.code = 401 \/ e.code = 403
    THEN Step(Returned(cr, AuthError(AuthReason)), "failure", FALSE)
    ELSE IF e.code = 429
      THEN rateLimited(cr, mr, bd)
      ELSE Step(Returned(cr, e), IF e.code >= 500 THEN "failure" ELSE "none", FALSE)

\* mutant: an error that is no *APIError is reported to the breaker too
attemptOnce_CountsEveryError(cr, out, mr, bd) ==
  LET e == doOnce(out)
      c1 == [cr EXCEPT !.sent = IF Sends(out) THEN @ + 1 ELSE @,
                       !.seen = IF out.kind = "response"
                                  THEN Append(@, out.status) ELSE @,
                       !.ctx = IF out.cause \in CtxErrs THEN out.cause ELSE @]
  IN IF e = Nil
       THEN Step(Returned(c1, Nil), "success", FALSE)
       ELSE IF e.kind = "APIError"
         THEN classify(c1, e, mr, bd)
         ELSE Step(Returned(c1, e), "failure", FALSE)

\* one pass of the loop of do
attemptOnce(cr, out, mr, bd) ==
  LET e == doOnce(out)
      c1 == [cr EXCEPT !.sent = IF Sends(out) THEN @ + 1 ELSE @,
                       !.seen = IF out.kind = "response"
                                  THEN Append(@, out.status) ELSE @,
                       !.ctx = IF out.cause \in CtxErrs THEN out.cause ELSE @]
  IN IF e = Nil
       THEN Step(Returned(c1, Nil), "success", FALSE)
       ELSE IF e.kind = "APIError"
         THEN classify(c1, e, mr, bd)
         ELSE Step(Returned(c1, e), "none", FALSE)

\* the breaker after it was told `told` at clock t
tell(told, f, lf, t) ==
  CASE told = "success" -> [failures |-> recordSuccess(f), lastFailure |-> lf]
    [] told = "failure" -> recordFailure(f, lf, t)
    [] OTHER -> [failures |-> f, lastFailure |-> lf]

(***************************************************************************)
(* The backoff select.  When it is evaluated Go takes one of the cases     *)
(* that are ready, at random if both are; with none ready the goroutine    *)
(* blocks, and the first of the two channels to become ready then decides  *)
(* the case.                                                               *)
(***************************************************************************)
selectReady(cr) ==
  (IF cr.ctx # "live" THEN {"ctx.Done"} ELSE {})
  \cup (IF cr.fired THEN {"time.After"} ELSE {})

\* mutant: the ctx.Done case returns lastErr, which is still nil there
afterSelect_ReturnsLastErr(cr, branch) ==
  IF branch = "ctx.Done"
    THEN Returned(cr, Nil)
    ELSE [cr EXCEPT !.pc = "attempt", !.attempt = @ + 1, !.timer = NoTimer, !.fired = FALSE]

afterSelect(cr, branch) ==
  IF branch = "ctx.Done"
    THEN Returned(cr, CtxErr(cr.ctx))
    ELSE [cr EXCEPT !.pc = "attempt", !.attempt = @ + 1, !.timer = NoTimer, !.fired = FALSE]

(***************************************************************************)
(* Actions.                                                                *)
(***************************************************************************)
\* no goroutine is inside a breaker method, no second Client exists and
\* nothing was computed apart from the calls
AuxIdle ==
  /\ mu = "none"
  /\ thread = << >>
  /\ seq = << >>
  /\ heap = << >>
  /\ clients = << >>
  /\ actor = 0
  /\ probe = << >>

Breaker0 ==
  /\ failures = 0
  /\ lastFailure = ZeroTime
  /\ now = 0
  /\ crashed = FALSE

\* NewWithOptions(url, key, WithRetries(n), WithRetryBaseDelay(d)) with
\* n >= 0 and d > 0; one goroutine uses the Client
Init ==
  /\ maxRetries \in 0 .. MaxRetriesBound
  /\ baseDelay \in BaseDelays
  /\ Breaker0
  /\ call = [c \in {"g1"} |-> NoCall]
  /\ AuxIdle

\* several goroutines share the Client
InitShared ==
  /\ maxRetries = SharedRetries
  /\ baseDelay = Int64(SharedBaseDelay)
  /\ Breaker0
  /\ call = [c \in AllCallers |-> NoCall]
  /\ AuxIdle

\* do is entered by goroutine c and asks the breaker; the loop is entered
\* with attempt 0 if that is within the retry budget, and lastErr, nil, is
\* returned if it is not
Entry(c) ==
  LET g == isOpen(failures, lastFailure, now)
      c0 == [NoCall EXCEPT !.ctx = "live",
                           !.touched = (g.failures # failures),
                           !.gate = Standing(failures, lastFailure, now)]
  IN /\ failures' = g.failures
     /\ call' = [call EXCEPT ![c] =
                   IF g.open THEN Returned(c0, CircuitBreakerError)
                   ELSE IF 0 <= maxRetries THEN [c0 EXCEPT !.pc = "attempt"]
                   ELSE Returned(c0, Nil)]

\* Get/Post/Put/Delete: do is entered and asks the breaker
Call(c) ==
  /\ ~crashed
  /\ call[c].pc = "idle"
  /\ Entry(c)
  /\ UNCHANGED <<maxRetries, baseDelay, lastFailure, now, crashed>>
  /\ UNCHANGED aux

\* one pass of the loop body in which doOnce comes to out; r is what the
\* pass comes to
Pass(c, out) ==
  \E r \in {attemptOnce(call[c], out, maxRetries, baseDelay)} :
    LET b == tell(r.cb, failures, lastFailure, now)
        changed == b.failures # failures \/ b.lastFailure # lastFailure
    IN /\ call' = [call EXCEPT ![c] =
                     [r.call EXCEPT !.touched = @ \/ changed]]
       /\ failures' = b.failures
       /\ lastFailure' = b.lastFailure
       /\ crashed' = r.panic

\* one pass of the loop body: doOnce and what do makes of its result
Attempt(c) ==
  /\ ~crashed
  /\ call[c].pc = "attempt"
  /\ \E out \in Outcomes(call[c]) : Pass(c, out)
  /\ UNCHANGED <<maxRetries, baseDelay, now>>
  /\ UNCHANGED aux

\* the timer of time.After(sleepDuration) fires before the select is
\* evaluated
TimerFires(c) ==
  /\ ~crashed
  /\ call[c].pc = "select"
  /\ ~call[c].fired
  /\ call' = [call EXCEPT ![c].fired = TRUE]
  /\ UNCHANGED <<maxRetries, baseDelay, failures, lastFailure, now, crashed>>
  /\ UNCHANGED aux

\* the select is evaluated with a case ready, and takes one
Select(c) ==
  /\ ~crashed
  /\ call[c].pc = "select"
  /\ \E branch \in selectReady(call[c]) :
       call' = [call EXCEPT ![c] = afterSelect(call[c], branch)]
  /\ UNCHANGED <<maxRetries, baseDelay, failures, lastFailure, now, crashed>>
  /\ UNCHANGED aux

\* the select is evaluated with no case ready: the goroutine blocks
Park(c) ==
  /\ ~crashed
  /\ call[c].pc = "select"
  /\ selectReady(call[c]) = {}
  /\ call' = [call EXCEPT ![c].pc = "parked"]
  /\ UNCHANGED <<maxRetries, baseDelay, failures, lastFailure, now, crashed>>
  /\ UNCHANGED aux

\* the timer fires while the goroutine is blocked in the select
WakeOnTimer(c) ==
  /\ ~crashed
  /\ call[c].pc = "parked"
  /\ call' = [call EXCEPT ![c] =
                afterSelect([call[c] EXCEPT !.fired = TRUE], "time.After")]
  /\ UNCHANGED <<maxRetries, baseDelay, failures, lastFailure, now, crashed>>
  /\ UNCHANGED aux

\* the context ends while the goroutine is blocked in the select
WakeOnCancel(c) ==
  /\ ~crashed
  /\ call[c].pc = "parked"
  /\ \E e \in CtxErrs :
       call' = [call EXCEPT ![c] =
                  afterSelect([call[c] EXCEPT !.ctx = e], "ctx.Done")]
  /\ UNCHANGED <<maxRetries, baseDelay, failures, lastFailure, now, crashed>>
  /\ UNCHANGED aux

\* the caller cancels the context of its call, or its deadline passes, while
\* the goroutine is not blocked
Cancel(c) ==
  /\ ~crashed
  /\ call[c].pc \in {"attempt", "select"}
  /\ call[c].ctx = "live"
  /\ \E e \in CtxErrs : call' = [call EXCEPT ![c].ctx = e]
  /\ UNCHANGED <<maxRetries, baseDelay, failures, lastFailure, now, crashed>>
  /\ UNCHANGED aux

\* the caller takes the result; it may call again
Return(c) ==
  /\ ~crashed
  /\ call[c].pc = "done"
  /\ call' = [call EXCEPT ![c] = NoCall]
  /\ UNCHANGED <<maxRetries, baseDelay, failures, lastFailure, now, crashed>>
  /\ UNCHANGED aux

\* time passes
Tick ==
  /\ ~crashed
  /\ \E d \in TickSteps :
       /\ now + d <= MaxClock
       /\ now' = now + d
  /\ UNCHANGED <<maxRetries, baseDelay, failures, lastFailure, crashed, call>>
  /\ UNCHANGED aux

Next ==
  \/ \E c \in Callers : Call(c)
  \/ \E c \in Callers : Attempt(c)
  \/ \E c \in Callers : TimerFires(c)
  \/ \E c \in Callers : Select(c)
  \/ \E c \in Callers : Park(c)
  \/ \E c \in Callers : WakeOnTimer(c)
  \/ \E c \in Callers : WakeOnCancel(c)
  \/ \E c \in Callers : Cancel(c)
  \/ \E c \in Callers : Return(c)
  \/ Tick

Spec == Init /\ [][Next]_vars

SpecShared == InitShared /\ [][Next]_vars

\* the Client is used by one goroutine, or shared by several
InitGoroutines ==
  /\ maxRetries = SharedRetries
  /\ baseDelay = Int64(SharedBaseDelay)
  /\ Breaker0
  /\ call \in {[c \in gs |-> NoCall] : gs \in {{"g1"}, AllCallers}}
  /\ AuxIdle

SpecGoroutines == InitGoroutines /\ [][Next]_vars

\* The goroutine of a call is scheduled: doOnce comes back (the exchange is
\* bounded by http.Client.Timeout), the select is evaluated, and the timer
\* of time.After fires on a goroutine blocked in the select.
Progress ==
  \A c \in {"g1"} :
    /\ WF_vars(Attempt(c))
    /\ WF_vars(Select(c))
    /\ WF_vars(Park(c))
    /\ WF_vars(WakeOnTimer(c))

SpecLive == Init /\ [][Next]_vars /\ Progress

(***************************************************************************)
(* The circuitBreaker's methods statement by statement, run by goroutines  *)
(* that share one breaker.  isOpen, recordSuccess and recordFailure each   *)
(* begin with cb.mu.Lock() and end, by defer, with cb.mu.Unlock();         *)
(* cb.failures++ is a load and a store.                                    *)
(*   thread[t].op    the method goroutine t is in, "none" between methods  *)
(*   thread[t].pc    "lock" | "check" | "reset" | "load" | "store" |       *)
(*                   "stamp" | "unlock"                                    *)
(*   thread[t].reg   the cb.failures it loaded                             *)
(*   thread[t].ret   what isOpen is about to return                        *)
(*   thread[t].want  what isOpen returns when the methods run one after    *)
(*                   another in the order in which they took cb.mu         *)
(*   seq             the breaker as the methods leave it when run one      *)
(*                   after another in that order, and how many were called *)
(***************************************************************************)
\* Breaker methods called in one run.
MaxCalls == 6

Methods == {"isOpen", "recordSuccess", "recordFailure"}

NoMethod == [op |-> "none", pc |-> "none", reg |-> 0, ret |-> FALSE, want |-> FALSE]

\* mutant: cb.mu.Lock() does not wait for the holder
mutexFree_Always(m) == TRUE

\* cb.mu.Lock() goes through when nobody holds the mutex
mutexFree(m) == m = "none"

InitBreaker ==
  /\ maxRetries = 0
  /\ baseDelay = Int64(1)
  /\ Breaker0
  /\ call = << >>
  /\ mu = "none"
  /\ thread = [t \in AllCallers |-> NoMethod]
  /\ seq = [failures |-> 0, lastFailure |-> ZeroTime, calls |-> 0]
  /\ heap = << >>
  /\ clients = << >>
  /\ actor = 0
  /\ probe = << >>

\* goroutine t calls a method of the breaker
Invoke(t) ==
  /\ thread[t].op = "none"
  /\ seq.calls < MaxCalls
  /\ \E m \in Methods :
       thread' = [thread EXCEPT ![t] = [NoMethod EXCEPT !.op = m, !.pc = "lock"]]
  /\ seq' = [seq EXCEPT !.calls = @ + 1]
  /\ UNCHANGED <<maxRetries, baseDelay, failures, lastFailure, now, crashed,
                 call, mu, heap, clients, actor, probe>>

\* cb.mu.Lock()
Lock(t) ==
  /\ thread[t].pc = "lock"
  /\ mutexFree(mu)
  /\ mu' = t
  /\ thread' = [thread EXCEPT ![t].pc =
                  CASE thread[t].op = "isOpen" -> "check"
                    [] thread[t].op = "recordSuccess" -> "reset"
                    [] OTHER -> "load"]
  /\ UNCHANGED <<maxRetries, baseDelay, failures, lastFailure, now, crashed,
                 call, seq, heap, clients, actor, probe>>

\* the body of isOpen
Check(t) ==
  /\ thread[t].pc = "check"
  /\ LET g == isOpen(failures, lastFailure, now)
         w == isOpen(seq.failures, seq.lastFailure, now)
     IN /\ failures' = g.failures
        /\ seq' = [seq EXCEPT !.failures = w.failures]
        /\ thread' = [thread EXCEPT ![t].pc = "unlock",
                                    ![t].ret = g.open,
                                    ![t].want = w.open]
  /\ UNCHANGED <<maxRetries, baseDelay, lastFailure, now, crashed,
                 call, mu, heap, clients, actor, probe>>

\* the body of recordSuccess: cb.reset()
Reset(t) ==
  /\ thread[t].pc = "reset"
  /\ failures' = recordSuccess(failures)
  /\ seq' = [seq EXCEPT !.failures = recordSuccess(@)]
  /\ thread' = [thread EXCEPT ![t].pc = "unlock"]
  /\ UNCHANGED <<maxRetries, baseDelay, lastFailure, now, crashed,
                 call, mu, heap, clients, actor, probe>>

\* recordFailure: cb.failures++ reads the counter
Load(t) ==
  /\ thread[t].pc = "load"
  /\ thread' = [thread EXCEPT ![t].pc = "store", ![t].reg = failures]
  /\ UNCHANGED <<maxRetries, baseDelay, failures, lastFailure, now, crashed,
                 call, mu, seq, heap, clients, actor, probe>>

\* recordFailure: cb.failures++ writes the counter
Store(t) ==
  /\ thread[t].pc = "store"
  /\ failures' = recordFailure(thread[t].reg, lastFailure, now).failures
  /\ thread' = [thread EXCEPT ![t].pc = "stamp"]
  /\ UNCHANGED <<maxRetries, baseDelay, lastFailure, now, crashed,
                 call, mu, seq, heap, clients, actor, probe>>

\* recordFailure: cb.lastFailure = time.Now()
Stamp(t) ==
  /\ thread[t].pc = "stamp"
  /\ lastFailure' = recordFailure(failures, lastFailure, now).lastFailure
  /\ LET w == recordFailure(seq.failures, seq.lastFailure, now)
     IN seq' = [seq EXCEPT !.failures = w.failures,
                           !.lastFailure = w.lastFailure]
  /\ thread' = [thread EXCEPT ![t].pc = "unlock"]
  /\ UNCHANGED <<maxRetries, baseDelay, failures, now, crashed,
                 call, mu, heap, clients, actor, probe>>

\* the deferred cb.mu.Unlock(), and the method returns
Unlock(t) ==
  /\ thread[t].pc = "unlock"
  /\ mu' = "none"
  /\ thread' = [thread EXCEPT ![t] = [@ EXCEPT !.op = "none", !.pc = "none"]]
  /\ UNCHANGED <<maxRetries, baseDelay, failures, lastFailure, now, crashed,
                 call, seq, heap, clients, actor, probe>>

NextBreaker ==
  \/ \E t \in DOMAIN thread : Invoke(t)
  \/ \E t \in DOMAIN thread : Lock(t)
  \/ \E t \in DOMAIN thread : Check(t)
  \/ \E t \in DOMAIN thread : Reset(t)
  \/ \E t \in DOMAIN thread : Load(t)
  \/ \E t \in DOMAIN thread : Store(t)
  \/ \E t \in DOMAIN thread : Stamp(t)
  \/ \E t \in DOMAIN thread : Unlock(t)
  \/ Tick

SpecBreaker == InitBreaker /\ [][NextBreaker]_vars

(***************************************************************************)
(* Several Clients in one process.  NewWithOptions gives each Client a     *)
(* circuitBreaker from newCircuitBreaker; heap holds the breakers          *)
(* allocated, a Client's cb is its breaker's place in heap.  A call        *)
(* through a Client is two steps: the isOpen check when do is entered and, *)
(* if the call is let through, what do tells the breaker when it returns;  *)
(* calls of other goroutines on the same Client come in between, and       *)
(* inflight counts the calls the Client has let through and not finished.  *)
(***************************************************************************)
\* Clients constructed in one process.
MaxClients == 2
\* Calls that are in the loop of do at a time, over all Clients.
MaxInFlight == 2

\* what do tells the breaker at the end of a call it let through
Tellings == {"success", "failure", "none"}

\* mutant: one breaker for the whole process, handed to every Client
newCircuitBreaker_Singleton(h) ==
  IF h = << >>
    THEN [heap |-> <<[failures |-> 0, lastFailure |-> ZeroTime]>>, ref |-> 1]
    ELSE [heap |-> h, ref |-> 1]

\* &circuitBreaker{maxFailures: 5, resetTimeout: 30 * time.Second}: a new
\* object, no failures counted, the zero time as its last failure
newCircuitBreaker(h) ==
  [heap |-> Append(h, [failures |-> 0, lastFailure |-> ZeroTime]),
   ref |-> Len(h) + 1]

\* the breaker of Client k
BreakerOf(h, cs, k) == h[cs[k].cb]

InitClients ==
  /\ maxRetries = 0
  /\ baseDelay = Int64(1)
  /\ Breaker0
  /\ call = << >>
  /\ mu = "none"
  /\ thread = << >>
  /\ seq = << >>
  /\ heap = << >>
  /\ clients = << >>
  /\ actor = 0
  /\ probe = << >>

\* NewWithOptions
NewClient ==
  /\ Len(clients) < MaxClients
  /\ LET n == newCircuitBreaker(heap)
     IN /\ heap' = n.heap
        /\ clients' = Append(clients, [cb |-> n.ref, inflight |-> 0])
  /\ actor' = Len(clients) + 1
  /\ UNCHANGED <<maxRetries, baseDelay, failures, lastFailure, now, crashed,
                 call, mu, thread, seq, probe>>

RECURSIVE InFlight(_)
\* the calls in the loop of do, over the Clients cs
InFlight(cs) ==
  IF cs = << >> THEN 0 ELSE Head(cs).inflight + InFlight(Tail(cs))

\* do is entered on Client k: the isOpen check, which lets the call into
\* the loop or returns CircuitBreakerError
DoEnters(k) ==
  /\ InFlight(clients) < MaxInFlight
  /\ LET b == BreakerOf(heap, clients, k)
         g == isOpen(b.failures, b.lastFailure, now)
     IN /\ heap' = [heap EXCEPT ![clients[k].cb].failures = g.failures]
        /\ clients' = [clients EXCEPT ![k].inflight =
                         IF g.open THEN @ ELSE @ + 1]
  /\ actor' = k
  /\ UNCHANGED <<maxRetries, baseDelay, failures, lastFailure, now, crashed,
                 call, mu, thread, seq, probe>>

\* a call that Client k let through returns: recordSuccess, recordFailure
\* or neither
DoReturns(k) ==
  /\ clients[k].inflight > 0
  /\ \E told \in Tellings :
       LET b == BreakerOf(heap, clients, k)
       IN heap' = [heap EXCEPT ![clients[k].cb] =
                     tell(told, b.failures, b.lastFailure, now)]
  /\ clients' = [clients EXCEPT ![k].inflight = @ - 1]
  /\ actor' = k
  /\ UNCHANGED <<maxRetries, baseDelay, failures, lastFailure, now, crashed,
                 call, mu, thread, seq, probe>>

NextClients ==
  \/ NewClient
  \/ \E k \in DOMAIN clients : DoEnters(k)
  \/ \E k \in DOMAIN clients : DoReturns(k)
  \/ Tick

SpecClients == InitClients /\ [][NextClients]_vars

(***************************************************************************)
(* Single computations of the client, each on inputs of its own: probe     *)
(* holds the input and the value the code computes from it.                *)
(***************************************************************************)
\* WithRetryBaseDelay values: 1/4 s, 1/2 s, 3/4 s, 1 s (the default), 1.5 s
\* and 2 s, the size users configure; 2^24 s less 1 ns, the longest delay
\* whose seconds a float64 still holds to the nanosecond;
\* 33554432.999999999 s, which a float64 does not tell from the next whole
\* second; and 2^61 and 2^62 ns, which a few doublings take past the 63
\* bits of a time.Duration.
PolicyDelays ==
  {Int64(Second \div 4), Int64(Second \div 2), Int64(3 * (Second \div 4)),
   Int64(Second), Int64(Second + Second \div 2), Shl(Int64(Second), 1),
   Sub(Mul(Int64(16777216), Int64(Second)), One64),
   Add(Mul(Int64(33554432), Int64(Second)), Int64(Second - 1)),
   Shl(One64, 61), Shl(One64, 62)}

(***************************************************************************)
(* JSON values, as a response body parses.                                 *)
(*   t   "string" | "object" | "array" | "invalid" (not JSON at all)       *)
(*   s   the string                                                        *)
(*   kv  the object's members, name to value                               *)
(*   el  the array's elements                                              *)
(***************************************************************************)
JString(x) == [t |-> "string", s |-> x, kv |-> << >>, el |-> << >>]
JObject(f) == [t |-> "object", s |-> "", kv |-> f, el |-> << >>]
JArray(q) == [t |-> "array", s |-> "", kv |-> << >>, el |-> q]
JInvalid == [t |-> "invalid", s |-> "", kv |-> << >>, el |-> << >>]
\* a body of no bytes
JEmpty == [t |-> "empty", s |-> "", kv |-> << >>, el |-> << >>]

\* {"data": p}
Envelope(p) == JObject([k \in {"data"} |-> p])

(***************************************************************************)
(* Go values a response is decoded into.                                   *)
(*   t    the Go type                                                      *)
(*   nil  a nil map or slice                                               *)
(*   m    a map's entries, or a struct's fields by their JSON names        *)
(*   el   a slice's elements                                               *)
(***************************************************************************)
\* Destination types: the map of the client's tests, two of the API's
\* structs and one of its slices.
DestTypes == {"map[string]string", "Attachment", "MergePDFsResponse", "[]Document"}

\* the JSON names of a struct's fields, all of Go type string
Fields(ty) ==
  CASE ty = "Attachment" -> {"id", "uuid", "url", "name"}
    [] ty = "MergePDFsResponse" -> {"data"}
    [] ty = "Document" -> {"name", "url"}
    [] ty = "Webhook" -> {"url", "secret"}
    [] OTHER -> {}

\* var result T
Zero(ty) ==
  CASE ty = "map[string]string" -> [t |-> ty, nil |-> TRUE, m |-> << >>, el |-> << >>]
    [] ty = "[]Document" -> [t |-> ty, nil |-> TRUE, m |-> << >>, el |-> << >>]
    [] OTHER -> [t |-> ty, nil |-> FALSE, m |-> [f \in Fields(ty) |-> ""], el |-> << >>]

(***************************************************************************)
(* json.Unmarshal(data, &v) on these values: the value v holds afterwards  *)
(* and whether an error is returned.  A member or element of the wrong     *)
(* JSON type is an error, and the rest is decoded all the same.            *)
(***************************************************************************)
Decoded(v, e) == [v |-> v, err |-> e]

\* into a struct: members are matched to fields by name, members without a
\* field are skipped, a member of the wrong type leaves its field alone
unmarshalStruct(j, old) ==
  IF j.t = "object"
    THEN Decoded(
           [old EXCEPT !.m =
              [f \in DOMAIN old.m |->
                 IF f \in DOMAIN j.kv /\ j.kv[f].t = "string"
                   THEN j.kv[f].s ELSE old.m[f]]],
           \E f \in DOMAIN old.m \cap DOMAIN j.kv : j.kv[f].t # "string")
    ELSE Decoded(old, TRUE)

\* into a map[string]string: a nil map is made, entries are added to the
\* ones there, a member of the wrong type is entered as ""
unmarshalMap(j, old) ==
  IF j.t = "object"
    THEN Decoded(
           [old EXCEPT !.nil = FALSE,
                       !.m = [k \in DOMAIN old.m \cup DOMAIN j.kv |->
                                IF k \in DOMAIN j.kv
                                  THEN IF j.kv[k].t = "string"
                                         THEN j.kv[k].s ELSE ""
                                  ELSE old.m[k]]],
           \E k \in DOMAIN j.kv : j.kv[k].t # "string")
    ELSE Decoded(old, TRUE)

\* into a nil []Document
unmarshalSlice(j, old) ==
  IF j.t = "array"
    THEN Decoded(
           [old EXCEPT !.nil = FALSE,
                       !.el = [i \in 1 .. Len(j.el) |->
                                 unmarshalStruct(j.el[i], Zero("Document")).v]],
           \E i \in 1 .. Len(j.el) :
              unmarshalStruct(j.el[i], Zero("Document")).err)
    ELSE Decoded(old, TRUE)

Unmarshal(j, v) ==
  CASE j.t \in {"invalid", "empty"} -> Decoded(v, TRUE)
    [] v.t = "map[string]string" -> unmarshalMap(j, v)
    [] v.t = "[]Document" -> unmarshalSlice(j, v)
    [] OTHER -> unmarshalStruct(j, v)

\* mutant: a body of no bytes is handed to json.Unmarshal like any other
decodeBody_NoLengthCheck(body, result) ==
  LET direct == Unmarshal(body, result)
  IN Decoded(direct.v, direct.err)

\* mutant: the value under "data" is tried first, the whole body after it
decodeBody_EnvelopeFirst(body, result) ==
  IF body.t = "empty"
    THEN Decoded(result, FALSE)
    ELSE LET inner == IF body.t = "object" /\ "data" \in DOMAIN body.kv
                        THEN Unmarshal(body.kv["data"], result)
                        ELSE Decoded(result, TRUE)
         IN IF ~inner.err THEN inner ELSE Unmarshal(body, inner.v)

\* doOnce on a status below 400: the body is decoded into result as it is
\* and, when that fails, the value under "data" is decoded into it
decodeBody(body, result) ==
  IF body.t = "empty"
    THEN Decoded(result, FALSE)
    ELSE LET direct == Unmarshal(body, result)
         IN IF ~direct.err
              THEN direct
              ELSE IF body.t = "object" /\ "data" \in DOMAIN body.kv
                     THEN LET inner == Unmarshal(body.kv["data"], direct.v)
                          IN IF ~inner.err
                               THEN inner
                               ELSE Decoded(inner.v, TRUE)
                     ELSE Decoded(direct.v, TRUE)

\* Payloads a server answers a successful request with.
Members ==
  {[k \in {"url"} |-> JString("u")],
   [k \in {"name", "url"} |-> JString("n")],
   [k \in {"status"} |-> JString("ok")],
   [k \in {"data"} |-> JString("JVBERi0")],
   [k \in {"id", "name"} |-> IF k = "id" THEN JString("7") ELSE JArray(<< >>)]}

Payloads ==
  {JObject(f) : f \in Members}
  \cup {JObject(<< >>), JArray(<< >>), JString("ok"), JInvalid}
  \cup {JArray(<<JObject(f)>>) : f \in Members}
  \cup {JArray(<<JObject(f), JObject(g)>>) : f, g \in Members}

(***************************************************************************)
(* The text of an error body, as a sequence of runs of bytes.              *)
(*   k      "fill"    n characters of w bytes each, none of them a quote   *)
(*          "member"  the JSON member "key":"value" as it is written       *)
(*          "mark"    the truncation marker                                *)
(*   bytes  the bytes of the body the run stands for                       *)
(*   whole  a fill: its last character is complete; a member: its closing  *)
(*          quote is there                                                 *)
(*   key    a member's name as written, klen bytes long                    *)
(*   sp     the white space between a member's colon and its value         *)
(*   vlen   the bytes written between the quotes of a member's value       *)
(*   q      the place in the value of its first quote character (written   *)
(*          \" in JSON), 0 when it has none                                *)
(*   shown  the bytes of the value that can be read in the text            *)
(*   red    the member's value is replaced by the marker [REDACTED]        *)
(* The bodies carry no quoted "bearer ..." string, the seventh pattern of  *)
(* initSanitizePatterns matches nowhere in them.                           *)
(***************************************************************************)
maxErrorBodyLength == 500

Fill(n, w) ==
  [k |-> "fill", n |-> n, w |-> w, bytes |-> n * w, whole |-> TRUE,
   key |-> "", klen |-> 0, sp |-> 0, vlen |-> 0, q |-> 0, shown |-> 0,
   red |-> FALSE]

Member(key, klen, sp, vlen, q) ==
  [k |-> "member", n |-> 1, w |-> 1, bytes |-> klen + sp + vlen + 5,
   whole |-> TRUE, key |-> key, klen |-> klen, sp |-> sp, vlen |-> vlen,
   q |-> q, shown |-> vlen, red |-> FALSE]

\* "... (truncated)"
Mark ==
  [k |-> "mark", n |-> 15, w |-> 1, bytes |-> 0, whole |-> TRUE,
   key |-> "", klen |-> 0, sp |-> 0, vlen |-> 0, q |-> 0, shown |-> 0,
   red |-> FALSE]

\* len(body)
RECURSIVE ByteLen(_)
ByteLen(text) ==
  IF text = << >> THEN 0 ELSE Head(text).bytes + ByteLen(Tail(text))

\* the first m bytes of run s, 0 < m < s.bytes
CutRun(s, m) ==
  IF s.k = "fill"
  THEN [s EXCEPT !.n = m \div s.w, !.bytes = m, !.whole = (m % s.w = 0)]
  ELSE LET v == m - (s.klen + s.sp + 4)
           kept == IF v < 0 THEN 0 ELSE v
       IN [s EXCEPT !.bytes = m, !.whole = FALSE, !.shown = kept,
                    !.q = IF s.q <= kept THEN s.q ELSE 0]

\* body[:m]
RECURSIVE Slice(_, _)
Slice(text, m) ==
  IF text = << >> \/ m = 0 THEN << >>
  ELSE LET s == Head(text) IN
         IF s.bytes <= m THEN <<s>> \o Slice(Tail(text), m - s.bytes)
         ELSE <<CutRun(s, m)>>

\* the bytes doOnce shows of a body it could not decode
previewLength == 100

\* "..."
Dots ==
  [k |-> "dots", n |-> 3, w |-> 1, bytes |-> 0, whole |-> TRUE,
   key |-> "", klen |-> 0, sp |-> 0, vlen |-> 0, q |-> 0, shown |-> 0,
   red |-> FALSE]

\* preview := string(respBody), cut to its first 100 bytes when it is longer
preview(text) ==
  IF ByteLen(text) > previewLength
    THEN Slice(text, previewLength) \o <<Dots>>
    ELSE text

\* the error doOnce returns for a body it could not decode
decodeError(text) ==
  [kind |-> "wrapped", msg |-> "unexpected API response format",
   got |-> preview(text), cause |-> "json"]

\* len(s) of the strings of the payloads
StrLen(x) ==
  CASE x \in {"u", "n", "7"} -> 1
    [] x \in {"ok", "id"} -> 2
    [] x = "url" -> 3
    [] x \in {"name", "data"} -> 4
    [] x = "status" -> 6
    [] x = "JVBERi0" -> 7
    [] OTHER -> 0

\* len(respBody) of a JSON value written without white space
RECURSIVE Written(_), WrittenMembers(_, _), WrittenElements(_)
Written(j) ==
  CASE j.t = "string" -> StrLen(j.s) + 2
    [] j.t = "object" -> 2 + WrittenMembers(j.kv, DOMAIN j.kv)
    [] j.t = "array" -> 2 + WrittenElements(j.el)
    [] OTHER -> 0

WrittenMembers(kv, ks) ==
  IF ks = {} THEN 0
  ELSE LET k == CHOOSE x \in ks : TRUE IN
         StrLen(k) + 3 + Written(kv[k])
         + (IF ks \ {k} = {} THEN 0 ELSE 1)
         + WrittenMembers(kv, ks \ {k})

WrittenElements(q) ==
  IF q = << >> THEN 0
  ELSE Written(Head(q)) + (IF Tail(q) = << >> THEN 0 ELSE 1)
       + WrittenElements(Tail(q))

\* Bodies that are no JSON: characters of one, two or three bytes, up to,
\* at and over 100 bytes
InvalidTexts ==
  {<<Fill(20, 1)>>, <<Fill(100, 1)>>, <<Fill(101, 1)>>, <<Fill(50, 2)>>,
   <<Fill(51, 2)>>, <<Fill(33, 3)>>, <<Fill(34, 3)>>}

\* the bytes of payload p as the server writes them
Texts(p) ==
  IF p.t = "invalid" THEN InvalidTexts ELSE {<<Fill(Written(p), 1)>>}

\* {"data": and } around the payload's bytes
EnvelopeText(text) == <<Fill(8, 1)>> \o text \o <<Fill(1, 1)>>

\* the names initSanitizePatterns looks for, matched with (?i)
SensitiveKeys ==
  {"api_key", "token", "password", "secret", "authorization", "auth"}

\* a member name in lower case
ToLower(key) ==
  CASE key = "API_KEY" -> "api_key"
    [] key = "Token" -> "token"
    [] key = "PassWord" -> "password"
    [] OTHER -> key

\* pattern.ReplaceAllStringFunc on one run: "key"\s*:\s*"[^"]*" matches a
\* member of a sensitive name from its first quote to the first quote
\* character after the one that opens the value; the match is replaced by
\* parts[0] + `: "[REDACTED]"`, what follows the match stays
Redact(s) ==
  IF s.k = "member" /\ ToLower(s.key) \in SensitiveKeys
                    /\ s.bytes >= s.klen + s.sp + 4
  THEN IF s.q > 0 THEN [s EXCEPT !.red = TRUE, !.shown = s.shown - s.q]
       ELSE IF s.whole THEN [s EXCEPT !.red = TRUE, !.shown = 0]
       ELSE s
  ELSE s

\* mutant: a body of exactly maxErrorBodyLength bytes is cut as well
TooLong_Inclusive(body) == ByteLen(body) >= maxErrorBodyLength

\* len(body) > maxErrorBodyLength
TooLong(body) == ByteLen(body) > maxErrorBodyLength

sanitizeErrorBody(body) ==
  LET cut == IF TooLong(body)
             THEN Slice(body, maxErrorBodyLength) \o <<Mark>>
             ELSE body
  IN [i \in 1 .. Len(cut) |-> Redact(cut[i])]

\* (*APIError).Error: "API error (status %d): %s"
Error(e) == [status |-> e.code, text |-> sanitizeErrorBody(e.text)]

\* Error bodies: a run of filler alone, or a run of one-byte filler, a
\* member and a run of one-byte filler.
FillLengths == {20, 500, 501, 600}
WideLengths == {250, 251, 300}
LeadLengths == {0, 480, 485}
TailLengths == {0, 500}
MemberNames ==
  {<<"api_key", 7>>, <<"API_KEY", 7>>, <<"Token", 5>>, <<"PassWord", 8>>,
   <<"secret", 6>>, <<"authorization", 13>>, <<"auth", 4>>, <<"error", 5>>}
\* "secret123", and a value with an escaped quote in it: abc\"def
MemberValues == {<<9, 0>>, <<8, 5>>}
RenderedStatuses == {404, 500}

\* the runs of text that are not empty
Runs(text) == SelectSeq(text, LAMBDA s : s.bytes > 0)

ErrorBodies ==
  {<<Fill(n, 1)>> : n \in FillLengths}
  \cup {<<Fill(n, 2)>> : n \in WideLengths}
  \cup {Runs(<<Fill(n, 1), Member(nm[1], nm[2], sp, v[1], v[2]), Fill(t, 1)>>) :
          n \in LeadLengths, nm \in MemberNames, sp \in {0, 1},
          v \in MemberValues, t \in TailLengths}

(***************************************************************************)
(* A base URL, as the sequence of its pieces: "h" is a scheme and host     *)
(* (https://example.com), "/" a slash and "api" the letters a, p, i.       *)
(***************************************************************************)
\* The pieces that follow the host in a URL a user supplies, at most.
MaxPath == 4

URLs ==
  {<<"h">> \o t : t \in UNION {[1 .. n -> {"/", "api"}] : n \in 0 .. MaxPath}}

\* strings.HasSuffix(u, "/api")
HasSuffix(u) ==
  /\ Len(u) >= 2
  /\ u[Len(u) - 1] = "/"
  /\ u[Len(u)] = "api"

\* mutant: the URL is left as it is
TrimSuffix_Keeps(u) == u

\* strings.TrimSuffix(u, "/"): one slash at the end is taken off
TrimSuffix(u) ==
  IF u # << >> /\ u[Len(u)] = "/" THEN SubSeq(u, 1, Len(u) - 1) ELSE u

\* the BaseURL NewWithOptions gives the Client
normalize(u) ==
  LET baseURL == TrimSuffix(u)
  IN IF ~HasSuffix(baseURL) THEN baseURL \o <<"/", "api">> ELSE baseURL

(***************************************************************************)
(* An error as ExitCode sees it: the chain errors.Is and errors.As walk,   *)
(* outermost first.  "wrapError" is what fmt.Errorf("...: %w", err) adds;  *)
(* the other names are the concrete errors: the api package's types,       *)
(* config.ErrNotConfigured, context.DeadlineExceeded and context.Canceled, *)
(* "net.timeout" a net.Error whose Timeout() is true (an expired           *)
(* http.Client.Timeout), "net.refused" a net.Error whose Timeout() is      *)
(* false, "errorString" an errors.New value.  The nil error is << >>.      *)
(***************************************************************************)
\* fmt.Errorf layers the command layer and the client put around an error.
MaxWraps == 2

ConcreteErrors ==
  {"ValidationError", "AuthError", "RateLimitError", "ErrNotConfigured",
   "CircuitBreakerError", "DeadlineExceeded", "Canceled", "APIError",
   "net.timeout", "net.refused", "errorString"}

\* the types that have Timeout() and Temporary(), and those whose Timeout()
\* is true; context.DeadlineExceeded is one of them, and the *url.Error
\* that http.Client.Do returns has the methods too
NetErrors == {"net.timeout", "net.refused", "DeadlineExceeded", "url.Error"}
TimesOut == {"net.timeout", "DeadlineExceeded"}

\* fmt.Errorf("...: %w", chain), k times over
RECURSIVE Wrap(_, _)
Wrap(chain, k) == IF k = 0 THEN chain ELSE <<"wrapError">> \o Wrap(chain, k - 1)

\* mutant: only the outermost error is looked at (a type assertion)
Is_Outermost(chain, target) == chain # << >> /\ chain[1] = target

\* errors.Is(err, target), and errors.As(err, &t) for t of a concrete type
Is(chain, target) == \E i \in 1 .. Len(chain) : chain[i] = target

\* Timeout() of the error at place i of the chain: a *url.Error asks the
\* error it holds, if that one has the method
RECURSIVE Timeout(_, _)
Timeout(chain, i) ==
  IF chain[i] = "url.Error"
    THEN /\ i < Len(chain)
         /\ chain[i + 1] \in NetErrors
         /\ Timeout(chain, i + 1)
    ELSE chain[i] \in TimesOut

\* errors.As(err, &ne) && ne.Timeout() for ne a net.Error: the first error
\* of the chain that is a net.Error is asked
AsNetTimeout(chain) ==
  \E i \in 1 .. Len(chain) :
    /\ chain[i] \in NetErrors
    /\ \A j \in 1 .. (i - 1) : chain[j] \notin NetErrors
    /\ Timeout(chain, i)

classifyError(chain) ==
  IF Is(chain, "ErrNotConfigured") THEN "not_configured"
  ELSE IF Is(chain, "AuthError") THEN "auth"
  ELSE IF Is(chain, "RateLimitError") THEN "rate_limit"
  ELSE IF Is(chain, "ValidationError") THEN "validation"
  ELSE IF Is(chain, "CircuitBreakerError") THEN "circuit_breaker"
  ELSE IF Is(chain, "DeadlineExceeded") THEN "timeout"
  ELSE IF AsNetTimeout(chain) THEN "timeout"
  ELSE "unknown"

ExitCode(chain) ==
  LET type == classifyError(chain)
  IN CASE type = "validation" -> 2
       [] type = "auth" -> 3
       [] type = "rate_limit" -> 4
       [] type = "not_configured" -> 5
       [] type = "circuit_breaker" -> 6
       [] type = "timeout" -> 7
       [] OTHER -> 1

\* the error do returns, as the chain errors.Is and errors.As walk: the
\* errors of this package are themselves, ctx.Err() is context.Canceled or
\* context.DeadlineExceeded, fmt.Errorf("...: %w", err) holds err, and the
\* error of c.HTTP.Do is a *url.Error that holds the context's error or the
\* transport's
Chain(e) ==
  CASE e.kind = "nil" -> << >>
    [] e.kind = "context" -> <<e.text>>
    [] e.kind = "wrapped" ->
         IF e.text = "request failed"
           THEN <<"wrapError", "url.Error", e.cause>>
           ELSE IF e.cause = "" THEN <<"wrapError", "errorString">>
           ELSE <<"wrapError", e.cause>>
    [] OTHER -> <<e.kind>>

(***************************************************************************)
(* WriteError: what main prints on stderr for a failed command.  output    *)
(* is the value of --output (or DOCUSEAL_OUTPUT), ra the RetryAfter of the *)
(* chain's RateLimitError.  In JSON the payload is a map from member names *)
(* to values; "error" holds err.Error(), written here as the chain it is   *)
(* formatted from.                                                         *)
(***************************************************************************)
Outputs == {"text", "json", "ndjson", "yaml"}
RetryAfters == {0, 2}

\* outfmt.Parse, and Text when it fails
Parse(output) ==
  CASE output \in {"text", ""} -> "Text"
    [] output = "json" -> "JSON"
    [] output \in {"ndjson", "jsonl"} -> "NDJSON"
    [] OTHER -> "Text"

\* mutant: the RateLimitError is looked for at the top of the chain only
AsRateLimitError_Outermost(chain) ==
  chain # << >> /\ chain[1] = "RateLimitError"

\* var rl *api.RateLimitError; errors.As(err, &rl)
AsRateLimitError(chain) == Is(chain, "RateLimitError")

WriteError(output, chain, ra) ==
  LET mode == Parse(output)
      members == {"error", "type", "exit_code"}
                 \cup (IF AsRateLimitError(chain)
                         THEN {"retry_after_seconds"} ELSE {})
  IN IF mode = "JSON" \/ mode = "NDJSON"
       THEN [format |-> "json",
             payload |-> [k \in members |->
                            CASE k = "error" -> chain
                              [] k = "type" -> classifyError(chain)
                              [] k = "exit_code" -> ExitCode(chain)
                              [] OTHER -> ra]]
       ELSE [format |-> "text", payload |-> << >>]

InitPure ==
  /\ maxRetries = 0
  /\ baseDelay = Int64(1)
  /\ Breaker0
  /\ call = << >>
  /\ AuxIdle

\* the last attempt of a call on a Client with base delay bd and retry
\* budget mr, every attempt of which is answered 429 with body b
LastAttempt(bd, mr, b) ==
  LET cr == [NoCall EXCEPT !.pc = "attempt", !.ctx = "live",
                           !.attempt = mr, !.sent = mr,
                           !.seen = [i \in 1 .. mr |-> 429],
                           !.gate = "closed"]
      r == attemptOnce(cr, Outcome("response", 429, b, ""), mr, bd)
  IN [fn |-> "do", baseDelay |-> bd, maxRetries |-> mr,
      body |-> b, out |-> r.call.err, told |-> r.cb]

\* the calls whose retries run out: those none of whose backoffs panicked
LastAttempts ==
  {LastAttempt(x[1], x[2], x[3]) :
     x \in {y \in PolicyDelays \X (0 .. MaxRetriesBound) \X Bodies :
              \A a \in 0 .. (y[2] - 1) :
                ~Int64NPanics(MaxJitter(BackoffDelay(y[1], a)))}}

Exhausted ==
  /\ \E p \in LastAttempts : probe' = p
  /\ UNCHANGED <<maxRetries, baseDelay, failures, lastFailure, now, crashed,
                 call, mu, thread, seq, heap, clients, actor>>

\* the body of a successful response, the payload as it is or in an
\* envelope, is decoded into a fresh result of type ty; around bytes that
\* are no JSON the envelope is no JSON either
Decode ==
  /\ \E p \in Payloads, ty \in DestTypes, w \in BOOLEAN :
       \E t \in Texts(p) :
         LET body == IF ~w THEN p
                     ELSE IF p.t = "invalid" THEN JInvalid ELSE Envelope(p)
             text == IF w THEN EnvelopeText(t) ELSE t
             d == decodeBody(body, Zero(ty))
         IN probe' = [fn |-> "decode", payload |-> p, type |-> ty,
                      wrapped |-> w, body |-> body, text |-> text,
                      out |-> d,
                      err |-> IF d.err THEN decodeError(text) ELSE Nil,
                      plain |-> decodeBody(p, Zero(ty))]
  /\ UNCHANGED <<maxRetries, baseDelay, failures, lastFailure, now, crashed,
                 call, mu, thread, seq, heap, clients, actor>>

\* an APIError of body b is rendered
Render ==
  /\ \E st \in RenderedStatuses, b \in ErrorBodies :
       probe' = [fn |-> "Error", body |-> b,
                 out |-> Error(APIError(st, b))]
  /\ UNCHANGED <<maxRetries, baseDelay, failures, lastFailure, now, crashed,
                 call, mu, thread, seq, heap, clients, actor>>

\* a Client is constructed on base URL u, and another on the first's BaseURL
Normalize ==
  /\ \E u \in URLs :
       probe' = [fn |-> "NewWithOptions", url |-> u, out |-> normalize(u),
                 again |-> normalize(normalize(u))]
  /\ UNCHANGED <<maxRetries, baseDelay, failures, lastFailure, now, crashed,
                 call, mu, thread, seq, heap, clients, actor>>

\* a command fails with error e under k layers of fmt.Errorf, or with the
\* nil error, and main asks for the exit code
Exit ==
  /\ \E e \in {<<x>> : x \in ConcreteErrors} \cup {<< >>}, k \in 0 .. MaxWraps :
       /\ e = << >> => k = 0
       /\ probe' = [fn |-> "ExitCode", err |-> e, wraps |-> k,
                    out |-> ExitCode(Wrap(e, k)), bare |-> ExitCode(e)]
  /\ UNCHANGED <<maxRetries, baseDelay, failures, lastFailure, now, crashed,
                 call, mu, thread, seq, heap, clients, actor>>

\* a command fails with error e under k layers of fmt.Errorf and main
\* writes the error
Report ==
  /\ \E o \in Outputs, x \in ConcreteErrors, k \in 0 .. MaxWraps,
        ra \in RetryAfters :
       /\ x # "RateLimitError" => ra = 0
       /\ probe' = [fn |-> "WriteError", output |-> o, err |-> <<x>>,
                    wraps |-> k, retryAfter |-> ra,
                    out |-> WriteError(o, Wrap(<<x>>, k), ra)]
  /\ UNCHANGED <<maxRetries, baseDelay, failures, lastFailure, now, crashed,
                 call, mu, thread, seq, heap, clients, actor>>

NextPure ==
  \/ Report
  \/ Exhausted
  \/ Decode
  \/ Render
  \/ Normalize
  \/ Exit

SpecPure == InitPure /\ [][NextPure]_vars

(***************************************************************************)
(* Requests as the API methods make them through one goroutine's Client:   *)
(* probe holds the request of the call in hand.                            *)
(*   op      "do" (Get, Post, Put or Delete called as it is),              *)
(*           "CreateWebhook" or "UpdateWebhook"                            *)
(*   method  the HTTP method handed to do, "none" when do was not reached  *)
(*   url, events  the webhook request's fields                             *)
(*   result  the caller's destination, as it is now                        *)
(*   before  the destination when the call was made                        *)
(*   keys    the Idempotency-Key of each request put on the network, in    *)
(*           order; 0 for a request without the header                     *)
(*   uuids   how many times uuid.New() was called for this call            *)
(*   resp    what the last doOnce came to, got the error it returned       *)
(***************************************************************************)
HTTPMethods == {"GET", "POST", "PUT", "DELETE"}

\* A webhook URL as url.Parse sees it: empty says the string is "", parses
\* that url.Parse returns no error, scheme and host are u.Scheme and
\* u.Hostname().
WebhookURL(empty, parses, scheme, host) ==
  [empty |-> empty, parses |-> parses, scheme |-> scheme, host |-> host]

WebhookURLs ==
  {WebhookURL(TRUE, TRUE, "", ""),
   WebhookURL(FALSE, FALSE, "", ""),
   WebhookURL(FALSE, TRUE, "", ""),
   WebhookURL(FALSE, TRUE, "ftp", "example.com"),
   WebhookURL(FALSE, TRUE, "https", "example.com"),
   WebhookURL(FALSE, TRUE, "http", "10.0.0.1"),
   WebhookURL(FALSE, TRUE, "http", "127.0.0.1"),
   WebhookURL(FALSE, TRUE, "https", "169.254.169.254"),
   WebhookURL(FALSE, TRUE, "http", "::1"),
   WebhookURL(FALSE, TRUE, "http", "localhost")}

\* net.ParseIP(host) != nil, and the three tests made on the address
ParseIP(host) ==
  host \in {"10.0.0.1", "127.0.0.1", "169.254.169.254", "::1"}
IsLoopback(host) == host \in {"127.0.0.1", "::1"}
IsPrivate(host) == host = "10.0.0.1"
IsLinkLocalUnicast(host) == host = "169.254.169.254"

ValidWebhookEvents ==
  {"submission.created", "submission.completed", "submission.archived",
   "form.viewed", "form.started", "form.completed", "template.created",
   "template.updated"}

EventLists ==
  {<< >>, <<"form.completed">>, <<"form.deleted">>,
   <<"form.completed", "form.deleted">>}

validateWebhookURL(u) ==
  IF ~u.parses THEN ValidationError("url", "invalid URL format")
  ELSE IF u.scheme # "https" /\ u.scheme # "http"
    THEN ValidationError("url", "URL must use http or https scheme")
  ELSE IF /\ ParseIP(u.host)
          /\ (IsLoopback(u.host) \/ IsPrivate(u.host)
              \/ IsLinkLocalUnicast(u.host))
    THEN ValidationError("url", "private/loopback IP addresses not allowed")
  ELSE IF u.host = "localhost" \/ u.host = "127.0.0.1" \/ u.host = "::1"
    THEN ValidationError("url", "localhost not allowed")
  ELSE Nil

\* mutant: the events are not looked up in ValidWebhookEvents
validateWebhookEvents_AnyName(events) ==
  IF Len(events) = 0
    THEN ValidationError("events", "at least one event type required")
  ELSE Nil

\* the message of an unsupported event ends with the event's name
validateWebhookEvents(events) ==
  IF Len(events) = 0
    THEN ValidationError("events", "at least one event type required")
  ELSE IF \E i \in 1 .. Len(events) : events[i] \notin ValidWebhookEvents
    THEN ValidationError("events", "unsupported event type")
  ELSE Nil

\* what CreateWebhook finds wrong with a request, Nil for nothing
createChecks(u, events) ==
  IF validateWebhookURL(u) # Nil THEN validateWebhookURL(u)
  ELSE validateWebhookEvents(events)

\* what UpdateWebhook finds wrong with a request: a field is looked at when
\* it is provided
updateChecks(u, events) ==
  IF ~u.empty /\ validateWebhookURL(u) # Nil THEN validateWebhookURL(u)
  ELSE IF Len(events) > 0 THEN validateWebhookEvents(events)
  ELSE Nil

\* The caller's destination: none (result == nil), a nil map, a map that
\* holds an entry already, a Webhook.
NoResult == [t |-> "nil", nil |-> TRUE, m |-> << >>, el |-> << >>]
Preset ==
  [t |-> "map[string]string", nil |-> FALSE,
   m |-> [k \in {"status"} |-> "old"], el |-> << >>]
Destinations == {NoResult, Zero("map[string]string"), Preset}

NoURL == WebhookURL(TRUE, TRUE, "", "")

Request(op, method, u, events, result) ==
  [fn |-> "request", op |-> op, method |-> method, url |-> u,
   events |-> events, result |-> result, before |-> result, keys |-> << >>,
   uuids |-> 0, resp |-> Outcome("none", 0, "", ""), got |-> Nil]

\* the body of a response below 400 as it parses: not JSON, no bytes, or
\* {"status":"ok"}
Parsed(out) ==
  IF out.kind = "decode" THEN JInvalid
  ELSE IF out.body = "" THEN JEmpty
  ELSE JObject([k \in {"status"} |-> JString("ok")])

\* mutant: the body is decoded whatever the status
doOnceInto_DecodesErrors(out, result) ==
  IF out.kind \in {"decode", "response"} /\ result.t # "nil"
    THEN LET d == decodeBody(Parsed(out), result)
         IN [err |-> doOnce(out), result |-> d.v]
    ELSE [err |-> doOnce(out), result |-> result]

\* doOnce with the caller's destination: the error it returns and the
\* destination afterwards
doOnceInto(out, result) ==
  IF out.kind \in {"decode", "response"} /\ out.status < 400
     /\ result.t # "nil"
    THEN LET d == decodeBody(Parsed(out), result)
         IN [err |-> IF d.err
                       THEN Wrapped("unexpected API response format", "")
                       ELSE Nil,
             result |-> d.v]
    ELSE [err |-> doOnce(out), result |-> result]

\* mutant: the key is made once, when do is entered
idempotencyKey_PerCall(method, uuids) == IF method = "POST" THEN 1 ELSE 0

\* the Idempotency-Key doOnce sets on a request, 0 for none: uuid.New() is
\* called for a POST, and its values (122 random bits) are taken never to
\* repeat: the n-th call returns n
idempotencyKey(method, uuids) == IF method = "POST" THEN uuids + 1 ELSE 0

InitRequests ==
  /\ maxRetries = SharedRetries
  /\ baseDelay = Int64(SharedBaseDelay)
  /\ Breaker0
  /\ call = [c \in {"g1"} |-> NoCall]
  /\ mu = "none"
  /\ thread = << >>
  /\ seq = << >>
  /\ heap = << >>
  /\ clients = << >>
  /\ actor = 0
  /\ probe = Request("do", "none", NoURL, << >>, NoResult)

\* Get, Post, Put or Delete is called with destination d
Do(c) ==
  /\ ~crashed
  /\ call[c].pc = "idle"
  /\ Entry(c)
  /\ \E m \in HTTPMethods, d \in Destinations :
       probe' = Request("do", m, NoURL, << >>, d)
  /\ UNCHANGED <<maxRetries, baseDelay, lastFailure, now, crashed,
                 mu, thread, seq, heap, clients, actor>>

\* CreateWebhook is called: the request is validated, then posted
CreateWebhook(c) ==
  /\ ~crashed
  /\ call[c].pc = "idle"
  /\ \E u \in WebhookURLs, ev \in EventLists :
       LET e == createChecks(u, ev) IN
         IF e # Nil
           THEN /\ call' = [call EXCEPT ![c] = Returned(NoCall, e)]
                /\ probe' = Request("CreateWebhook", "none", u, ev,
                                    Zero("Webhook"))
                /\ UNCHANGED failures
           ELSE /\ Entry(c)
                /\ probe' = Request("CreateWebhook", "POST", u, ev,
                                    Zero("Webhook"))
  /\ UNCHANGED <<maxRetries, baseDelay, lastFailure, now, crashed,
                 mu, thread, seq, heap, clients, actor>>

\* UpdateWebhook is called: the fields provided are validated, then put
UpdateWebhook(c) ==
  /\ ~crashed
  /\ call[c].pc = "idle"
  /\ \E u \in WebhookURLs, ev \in EventLists :
       LET e == updateChecks(u, ev) IN
         IF e # Nil
           THEN /\ call' = [call EXCEPT ![c] = Returned(NoCall, e)]
                /\ probe' = Request("UpdateWebhook", "none", u, ev,
                                    Zero("Webhook"))
                /\ UNCHANGED failures
           ELSE /\ Entry(c)
                /\ probe' = Request("UpdateWebhook", "PUT", u, ev,
                                    Zero("Webhook"))
  /\ UNCHANGED <<maxRetries, baseDelay, lastFailure, now, crashed,
                 mu, thread, seq, heap, clients, actor>>

\* one pass of the loop body, with the request doOnce builds and the
\* destination it decodes into; a body can fail to decode only when there
\* is a destination
Exchange(c) ==
  /\ ~crashed
  /\ call[c].pc = "attempt"
  /\ \E out \in Outcomes(call[c]) :
         /\ out.kind = "decode" => probe.result.t # "nil"
         /\ Pass(c, out)
         /\ LET d == doOnceInto(out, probe.result)
                built == out.kind \notin {"request", "create"}
                key == idempotencyKey(probe.method, probe.uuids)
            IN probe' =
                 [probe EXCEPT
                    !.result = d.result,
                    !.got = d.err,
                    !.resp = out,
                    !.uuids = IF built /\ key # 0 THEN @ + 1 ELSE @,
                    !.keys = IF Sends(out) THEN Append(@, key) ELSE @]
  /\ UNCHANGED <<maxRetries, baseDelay, now,
                 mu, thread, seq, heap, clients, actor>>

\* the caller takes the result and lets go of the request
Finish(c) ==
  /\ ~crashed
  /\ call[c].pc = "done"
  /\ call' = [call EXCEPT ![c] = NoCall]
  /\ probe' = Request("do", "none", NoURL, << >>, NoResult)
  /\ UNCHANGED <<maxRetries, baseDelay, failures, lastFailure, now, crashed,
                 mu, thread, seq, heap, clients, actor>>

NextRequests ==
  \/ \E c \in Callers : Do(c)
  \/ \E c \in Callers : CreateWebhook(c)
  \/ \E c \in Callers : UpdateWebhook(c)
  \/ \E c \in Callers : Exchange(c)
  \/ \E c \in Callers : TimerFires(c)
  \/ \E c \in Callers : Select(c)
  \/ \E c \in Callers : Park(c)
  \/ \E c \in Callers : WakeOnTimer(c)
  \/ \E c \in Callers : WakeOnCancel(c)
  \/ \E c \in Callers : Cancel(c)
  \/ \E c \in Callers : Finish(c)
  \/ Tick

SpecRequests == InitRequests /\ [][NextRequests]_vars

(***************************************************************************)
(* The calls of goroutines sharing a Client, counted as they end: seq is   *)
(* the number of calls that ended in 401, 403 or a status of 500 or more   *)
(* since the last call that returned nil and the last call that was let    *)
(* through after the cooldown.                                             *)
(***************************************************************************)
\* do returned e after a 401, a 403 or a status of 500 or more
BreakerFailure(e) ==
  e.kind = "AuthError" \/ (e.kind = "APIError" /\ e.code >= 500)

InitCount ==
  /\ maxRetries = SharedRetries
  /\ baseDelay = Int64(SharedBaseDelay)
  /\ Breaker0
  /\ call = [c \in AllCallers |-> NoCall]
  /\ mu = "none"
  /\ thread = << >>
  /\ seq = 0
  /\ heap = << >>
  /\ clients = << >>
  /\ actor = 0
  /\ probe = << >>

\* Get/Post/Put/Delete: do is entered and asks the breaker
CountedCall(c) ==
  /\ ~crashed
  /\ call[c].pc = "idle"
  /\ Entry(c)
  /\ seq' = IF Standing(failures, lastFailure, now) = "cooled" THEN 0 ELSE seq
  /\ UNCHANGED <<maxRetries, baseDelay, lastFailure, now, crashed,
                 mu, thread, heap, clients, actor, probe>>

\* one pass of the loop body; the call may end in it
CountedAttempt(c) ==
  /\ ~crashed
  /\ call[c].pc = "attempt"
  /\ \E out \in Outcomes(call[c]) : Pass(c, out)
  /\ seq' = IF call'[c].pc # "done" THEN seq
            ELSE IF call'[c].err = Nil THEN 0
            ELSE IF BreakerFailure(call'[c].err) THEN seq + 1
            ELSE seq
  /\ UNCHANGED <<maxRetries, baseDelay, now,
                 mu, thread, heap, clients, actor, probe>>

NextCount ==
  \/ \E c \in Callers : CountedCall(c)
  \/ \E c \in Callers : CountedAttempt(c)
  \/ \E c \in Callers : TimerFires(c)
  \/ \E c \in Callers : Select(c)
  \/ \E c \in Callers : Park(c)
  \/ \E c \in Callers : WakeOnTimer(c)
  \/ \E c \in Callers : WakeOnCancel(c)
  \/ \E c \in Callers : Cancel(c)
  \/ \E c \in Callers : Return(c)
  \/ Tick

SpecCount == InitCount /\ [][NextCount]_vars

(***************************************************************************)
(* The calls of one goroutine after the breaker has cooled, counted as     *)
(* they end.  seq.failed says that the call let through after the cooldown *)
(* ended in 401, 403 or a status of 500 or more and that no call has       *)
(* returned nil and no cooldown has been found elapsed since; seq.further  *)
(* is the number of calls that ended in such a failure after that one.     *)
(***************************************************************************)
NoneFailed == [failed |-> FALSE, further |-> 0]

InitReopen ==
  /\ maxRetries = SharedRetries
  /\ baseDelay = Int64(SharedBaseDelay)
  /\ Breaker0
  /\ call = [c \in {"g1"} |-> NoCall]
  /\ mu = "none"
  /\ thread = << >>
  /\ seq = NoneFailed
  /\ heap = << >>
  /\ clients = << >>
  /\ actor = 0
  /\ probe = << >>

\* Get/Post/Put/Delete: do is entered and asks the breaker
ReopenCall(c) ==
  /\ ~crashed
  /\ call[c].pc = "idle"
  /\ Entry(c)
  /\ seq' = IF Standing(failures, lastFailure, now) = "cooled"
              THEN NoneFailed ELSE seq
  /\ UNCHANGED <<maxRetries, baseDelay, lastFailure, now, crashed,
                 mu, thread, heap, clients, actor, probe>>

\* one pass of the loop body; the call may end in it
ReopenAttempt(c) ==
  /\ ~crashed
  /\ call[c].pc = "attempt"
  /\ \E out \in Outcomes(call[c]) : Pass(c, out)
  /\ seq' = IF call'[c].pc # "done" THEN seq
            ELSE IF call'[c].err = Nil THEN NoneFailed
            ELSE IF ~BreakerFailure(call'[c].err) THEN seq
            ELSE IF call[c].gate = "cooled"
              THEN [failed |-> TRUE, further |-> 0]
            ELSE IF seq.failed THEN [seq EXCEPT !.further = @ + 1]
            ELSE seq
  /\ UNCHANGED <<maxRetries, baseDelay, now,
                 mu, thread, heap, clients, actor, probe>>

NextReopen ==
  \/ \E c \in Callers : ReopenCall(c)
  \/ \E c \in Callers : ReopenAttempt(c)
  \/ \E c \in Callers : TimerFires(c)
  \/ \E c \in Callers : Select(c)
  \/ \E c \in Callers : Park(c)
  \/ \E c \in Callers : WakeOnTimer(c)
  \/ \E c \in Callers : WakeOnCancel(c)
  \/ \E c \in Callers : Cancel(c)
  \/ \E c \in Callers : Return(c)
  \/ Tick

SpecReopen == InitReopen /\ [][NextReopen]_vars

(***************************************************************************)
(* NewWithOptions with its options, and the calls of one goroutine on the  *)
(* Client it returns.  The Client's fields are maxRetries, baseDelay and   *)
(* HTTP.Timeout, kept as timeout; the durations are in nanoseconds.        *)
(***************************************************************************)
defaultTimeout == Mul(Int64(30), Int64(Second))
defaultMaxRetries == 3
defaultBaseDelay == Int64(Second)

\* an option and its argument, an int (n) or a time.Duration (d)
Option(f, x) == [opt |-> f, arg |-> x]

\* c.HTTP.Timeout = d, if d > 0
WithTimeout(d, c) == IF Positive(d) THEN [c EXCEPT !.timeout = d] ELSE c

\* mutant: the retry budget is taken as it is given
WithRetries_AnyValue(n, c) ==
  [c EXCEPT !.maxRetries = IF IsNeg(n) THEN 0 - Num(Neg(n)) ELSE Num(n)]

\* c.maxRetries = n, if n >= 0
WithRetries(n, c) == IF ~IsNeg(n) THEN [c EXCEPT !.maxRetries = Num(n)] ELSE c

\* c.baseDelay = d, if d > 0
WithRetryBaseDelay(d, c) == IF Positive(d) THEN [c EXCEPT !.baseDelay = d] ELSE c

\* opt(client)
apply(o, c) ==
  CASE o.opt = "WithTimeout" -> WithTimeout(o.arg, c)
    [] o.opt = "WithRetries" -> WithRetries(o.arg, c)
    [] o.opt = "WithRetryBaseDelay" -> WithRetryBaseDelay(o.arg, c)

\* for _, opt := range opts { opt(client) }
RECURSIVE applyAll(_, _)
applyAll(opts, c) ==
  IF opts = << >> THEN c ELSE applyAll(Tail(opts), apply(Head(opts), c))

NewWithOptions(opts) ==
  applyAll(opts, [maxRetries |-> defaultMaxRetries,
                  baseDelay |-> defaultBaseDelay,
                  timeout |-> defaultTimeout])

\* The options a Client is constructed with: a retry budget of -1, 0 and 1,
\* a base delay of 0, 4 ns and 2^62 ns, a timeout of -1 ns and 5 s.
Options ==
  {Option("WithRetries", Int64(n)) : n \in {0 - 1, 0, 1}}
  \cup {Option("WithRetryBaseDelay", d) : d \in {Zero64, Int64(4), Shl(One64, 62)}}
  \cup {Option("WithTimeout", d) : d \in {Int64(0 - 1), Mul(Int64(5), Int64(Second))}}

\* none, one or two of them, in either order, the same one twice as well
OptionLists ==
  {<< >>} \cup {<<a>> : a \in Options} \cup {<<a, b>> : a, b \in Options}

InitOptions ==
  /\ \E opts \in OptionLists :
       LET client == NewWithOptions(opts)
       IN /\ maxRetries = client.maxRetries
          /\ baseDelay = client.baseDelay
          /\ probe = [fn |-> "NewWithOptions", opts |-> opts,
                      timeout |-> client.timeout]
  /\ Breaker0
  /\ call = [c \in {"g1"} |-> NoCall]
  /\ mu = "none"
  /\ thread = << >>
  /\ seq = << >>
  /\ heap = << >>
  /\ clients = << >>
  /\ actor = 0

SpecOptions == InitOptions /\ [][Next]_vars





(***************************************************************************)
(* Properties.                                                             *)
(***************************************************************************)
\* every response in ss was a 429
AllRateLimited(ss) == \A i \in 1 .. Len(ss) : ss[i] = 429

\* all of ss but its last element
Front(ss) == SubSeq(ss, 1, Len(ss) - 1)

\* A call whose attempts so far, k of them with k within the retry budget,
\* were each answered 429, and that was not cancelled, goes on to attempt
\* k+1: it is in its backoff sleep or about to run doOnce again.
Asleep(cr) == cr.pc \in {"select", "parked"}

GoesOnAfter429(cr) ==
  (/\ cr.seen # << >>
   /\ AllRateLimited(cr.seen)
   /\ Len(cr.seen) <= maxRetries
   /\ cr.sent = Len(cr.seen)
   /\ cr.ctx = "live")
  => (cr.pc = "attempt" \/ Asleep(cr))

\* C1: for every max_retries >= 0 and every k <= max_retries, a call that the
\* breaker admits and nobody cancels, answered 429 on its first k attempts
\* and 2xx on attempt k+1, returns nil after exactly k+1 network attempts:
\* it goes on to the next attempt after each of the k 429s, and the 2xx
\* ends it with nil and k+1 attempts made.
C1_RetryThenSuccess ==
  \A c \in Callers :
    LET cr == call[c] IN
      /\ GoesOnAfter429(cr)
      /\ (/\ cr.seen # << >>
          /\ cr.seen[Len(cr.seen)] < 400
          /\ AllRateLimited(Front(cr.seen)))
         => /\ cr.pc = "done"
            /\ cr.err = Nil
            /\ cr.sent = Len(cr.seen)
            /\ Len(cr.seen) <= maxRetries + 1

\* C2: a call answered 429 on every attempt makes exactly max_retries+1
\* network attempts and returns a RateLimitError: it goes on after each of
\* the first max_retries 429s, and the 429 on attempt max_retries+1 ends it.
C2_RetriesExhausted ==
  \A c \in Callers :
    LET cr == call[c] IN
      /\ GoesOnAfter429(cr)
      /\ (AllRateLimited(cr.seen) /\ Len(cr.seen) > maxRetries)
         => /\ cr.pc = "done"
            /\ cr.err.kind = "RateLimitError"
      /\ cr.err.kind = "RateLimitError"
         => /\ cr.sent = maxRetries + 1
            /\ Len(cr.seen) = maxRetries + 1
            /\ AllRateLimited(cr.seen)


\* do is entered by goroutine c in this step
Enters(c) == call[c].pc = "idle" /\ call'[c].pc # "idle"

\* C3: with exactly 5 failures recorded and none reset, a call made before
\* the cooldown has elapsed (up to and including 30 s after the last
\* failure) returns CircuitBreakerError at once, with no network attempt and
\* the breaker left as it was.
C3_OpenBreakerRefuses ==
  [][\A c \in Callers :
       (/\ Enters(c)
        /\ failures = maxFailures
        /\ Since(lastFailure, now) <= resetTimeout)
       => /\ call'[c].pc = "done"
          /\ call'[c].err = CircuitBreakerError
          /\ call'[c].sent = 0
          /\ failures' = failures
          /\ lastFailure' = lastFailure]_vars

\* a call was refused while the counter stood at exactly 5
C3_Witness ==
  \E c \in Callers :
    /\ call[c].pc = "done"
    /\ call[c].err = CircuitBreakerError
    /\ call[c].gate = "open"
    /\ failures = maxFailures

\* C4 as claimed: no network attempt, first or retry, of any goroutine is
\* started while the breaker is open.
C4_EveryAttemptGated ==
  [][\A c \in Callers :
       call'[c].sent > call[c].sent
       => Standing(failures, lastFailure, now) # "open"]_vars

\* C4 as amended: the breaker gates every call, once, when do is entered: a
\* call that finds it open is refused with no network attempt, and every
\* attempt belongs to a call that found it closed or cooled down; attempts
\* of an admitted call are not checked again.
C4_CallGatedOnce ==
  \A c \in Callers :
    LET cr == call[c] IN
      /\ cr.gate = "open"
         => /\ cr.pc = "done"
            /\ cr.err = CircuitBreakerError
            /\ cr.sent = 0
            /\ cr.seen = << >>
      /\ (cr.sent > 0 \/ cr.pc = "attempt" \/ Asleep(cr) \/ cr.pc = "panic")
         => cr.gate \in {"closed", "cooled"}

\* one goroutine is refused while another, admitted earlier, is still on
\* its way to the network with the breaker open
C4_Witness ==
  \E c, d \in Callers :
    /\ c # d
    /\ call[c].gate = "open"
    /\ call[c].pc = "done"
    /\ call[d].pc = "attempt"
    /\ Standing(failures, lastFailure, now) = "open"

\* C5: a call made once the cooldown has elapsed on a tripped breaker is let
\* through, and if it succeeds it has been on the network and the counter
\* is zero.
C5_CooledLetThrough ==
  \A c \in Callers :
    LET cr == call[c] IN
      cr.gate = "cooled"
      => /\ cr.err # CircuitBreakerError
         /\ cr.pc # "idle"
         /\ (cr.pc = "done" /\ cr.err = Nil)
            => (cr.sent >= 1 /\ failures = 0)

\* a call let through after the cooldown has succeeded
C5_Witness ==
  \E c \in Callers :
    /\ call[c].gate = "cooled"
    /\ call[c].pc = "done"
    /\ call[c].err = Nil
    /\ lastFailure # ZeroTime

\* C6: a call whose first response is 401 or 403 ends there: one network
\* attempt, the AuthError with the fixed reason whatever the body was, and
\* the failure counter one higher.
C6_AuthFailsOnce ==
  [][\A c \in Callers :
       (/\ call[c].pc = "attempt"
        /\ call[c].seen = << >>
        /\ call'[c].seen \in {<<401>>, <<403>>})
       => /\ call'[c].pc = "done"
          /\ call'[c].err = AuthError(AuthReason)
          /\ call'[c].sent = 1
          /\ failures' = failures + 1]_vars

\* a call answered 403 has returned
C6_Witness ==
  \E c \in Callers :
    /\ call[c].pc = "done"
    /\ call[c].seen = <<403>>
    /\ call[c].err.kind = "AuthError"
    /\ failures >= 1

\* C7: a response with status >= 500 ends the call there, with no retry: the
\* call returns the APIError carrying that status, the failure counter is
\* one higher, and when it was the first response exactly one network
\* attempt was made.
C7_ServerErrorFailsOnce ==
  [][\A c \in Callers :
       (/\ call[c].pc = "attempt"
        /\ Len(call'[c].seen) = Len(call[c].seen) + 1
        /\ call'[c].seen[Len(call'[c].seen)] >= 500)
       => /\ call'[c].pc = "done"
          /\ call'[c].err.kind = "APIError"
          /\ call'[c].err.code = call'[c].seen[Len(call'[c].seen)]
          /\ call'[c].sent = call[c].sent + 1
          /\ (call[c].seen = << >> => call'[c].sent = 1)
          /\ failures' = failures + 1]_vars

\* a call answered 500 has returned the APIError
C7_Witness ==
  \E c \in Callers :
    /\ call[c].pc = "done"
    /\ call[c].seen = <<500>>
    /\ call[c].err.kind = "APIError"
    /\ call[c].err.code = 500
    /\ call[c].sent = 1

\* C8 as claimed: a call in which every response was a 429, ended by
\* RateLimitError or by cancellation, leaves the failure counter and the
\* last-failure timestamp as they were before the call.
C8_Untouched429Call ==
  \A c \in Callers :
    LET cr == call[c] IN
      (/\ cr.pc = "done"
       /\ cr.seen # << >>
       /\ AllRateLimited(cr.seen)
       /\ (cr.err.kind = "RateLimitError" \/ cr.ctx # "live"))
      => ~cr.touched

\* C8 as amended: no step that do takes after its breaker check, in a call
\* whose responses were all 429 (reading the 429, the backoff sleep, the
\* RateLimitError, the return on cancellation), changes the failure counter
\* or the last-failure timestamp.
C8_NoBreakerEffectOf429 ==
  [][\A c \in Callers :
       (/\ (call[c].pc = "attempt" \/ Asleep(call[c]))
        /\ call'[c] # call[c]
        /\ call'[c].seen # << >>
        /\ AllRateLimited(call'[c].seen))
       => /\ failures' = failures
          /\ lastFailure' = lastFailure]_vars

\* a call entered after the cooldown, whose breaker check reset the counter,
\* was answered 429 only and returned RateLimitError
C8_Witness ==
  \E c \in Callers :
    /\ call[c].pc = "done"
    /\ call[c].err.kind = "RateLimitError"
    /\ call[c].gate = "cooled"
    /\ call[c].touched
    /\ failures = 0

\* C9 as claimed: whenever the context has ended before the retry starts,
\* the backoff sleep ends with the call returning the context's own error.
C9_CancelAlwaysWins ==
  [][\A c \in Callers :
       (/\ Asleep(call[c])
        /\ call'[c].ctx # "live"
        /\ ~Asleep(call'[c]))
       => /\ call'[c].pc = "done"
          /\ call'[c].err = CtxErr(call'[c].ctx)]_vars

\* C9 as amended: a context that ends while the goroutine is blocked in the
\* select, or that has ended when the select is evaluated and the timer has
\* not fired, makes the call return ctx.Err() itself.  When the context has
\* ended and the timer has fired as well by the time the select is
\* evaluated, the select may take the timer case; the retry it then starts,
\* like a retry whose context ends after the select took the timer, sends
\* nothing and returns "request failed" wrapping the context's error.  No
\* further network attempt is made either way.
C9_CancelEndsCall ==
  [][\A c \in Callers :
       /\ (/\ Asleep(call[c])
           /\ call'[c].ctx # "live"
           /\ ~Asleep(call'[c]))
          => \/ /\ call'[c].pc = "done"
                /\ call'[c].err = CtxErr(call'[c].ctx)
                /\ call'[c].sent = call[c].sent
             \/ /\ call[c].pc = "select"
                /\ call[c].fired
                /\ call'[c].pc = "attempt"
                /\ call'[c].sent = call[c].sent
       /\ (/\ call[c].pc = "attempt"
           /\ call[c].attempt > 0
           /\ call[c].ctx # "live"
           /\ call'[c] # call[c])
          => /\ call'[c].pc = "done"
             /\ call'[c].err = Wrapped("request failed", call[c].ctx)
             /\ call'[c].sent = call[c].sent]_vars

\* a call was cancelled in the backoff sleep after its first 429 and returned
\* the context's own error, with no second network attempt
C9_Witness ==
  \E c \in Callers :
    /\ call[c].pc = "done"
    /\ call[c].seen = <<429>>
    /\ call[c].sent = 1
    /\ call[c].ctx # "live"
    /\ call[c].err = CtxErr(call[c].ctx)

\* C10: in every step, of any goroutine, the failure counter stays or grows,
\* or it is set to zero by recordSuccess (a call returning nil) or by isOpen
\* finding the counter at the threshold with the cooldown elapsed.
C10_CounterMonotone ==
  [][\/ failures' >= failures
     \/ /\ failures' = 0
        /\ \E c \in Callers :
             \/ /\ call[c].pc = "attempt"
                /\ call'[c].pc = "done"
                /\ call'[c].err = Nil
             \/ /\ Enters(c)
                /\ call'[c].pc = "attempt"
                /\ failures >= maxFailures
                /\ Since(lastFailure, now) > resetTimeout]_vars

\* the counter was reset by the breaker check of a call entered after the
\* cooldown
C10_Witness ==
  \E c \in Callers :
    /\ call[c].gate = "cooled"
    /\ call[c].pc = "attempt"
    /\ failures = 0
    /\ lastFailure # ZeroTime

\* C11: the breaker's methods are serialized by cb.mu.  Whenever no
\* goroutine is inside a method, the counter and the timestamp are what the
\* same calls leave when run one after another, in the order in which they
\* took the mutex; every isOpen returns what it returns in that sequential
\* run; and a recordFailure leaves the counter exactly one above what it
\* was when the method took the mutex (no update is lost).
C11_Serialized ==
  /\ mu = "none"
     => /\ failures = seq.failures
        /\ lastFailure = seq.lastFailure
  /\ \A t \in DOMAIN thread :
       /\ thread[t].pc = "unlock" => thread[t].ret = thread[t].want
       /\ thread[t].pc = "stamp" => failures = thread[t].reg + 1

\* a recordFailure has raised the counter from 1 to 2 while another
\* goroutine's recordFailure waits for the mutex
C11_Witness ==
  \E t, u \in DOMAIN thread :
    /\ t # u
    /\ thread[t].pc = "stamp"
    /\ thread[t].reg = 1
    /\ failures = 2
    /\ thread[u].op = "recordFailure"
    /\ thread[u].pc = "lock"

\* the context of a finished call ended during an HTTP exchange of the call:
\* the exchange was started and gave no response
CancelledInExchange(cr) ==
  /\ cr.pc = "done"
  /\ cr.ctx # "live"
  /\ cr.sent = Len(cr.seen) + 1

\* C12 as claimed: a call whose context ends during the HTTP exchange
\* returns the context's error value itself.
C12_CancellationUnwrapped ==
  \A c \in Callers :
    CancelledInExchange(call[c]) => call[c].err = CtxErr(call[c].ctx)

\* C12 as amended: a call whose context ends during the HTTP exchange
\* returns a new error, "request failed: ..." (or "failed to read response:
\* ..." when the body was being read), that wraps the context's error; the
\* context's error is in its chain, it is not the value returned.
C12_CancellationWrapped ==
  \A c \in Callers :
    CancelledInExchange(call[c])
    => /\ call[c].err.kind = "wrapped"
       /\ call[c].err.text \in {"request failed", "failed to read response"}
       /\ call[c].err.cause = call[c].ctx
       /\ call[c].err # CtxErr(call[c].ctx)

\* the first exchange of a call was cut short by the caller's cancellation
C12_Witness ==
  \E c \in Callers :
    /\ CancelledInExchange(call[c])
    /\ call[c].ctx = "Canceled"
    /\ call[c].sent = 1
    /\ call[c].err = Wrapped("request failed", "Canceled")

\* the computation probe holds is the end of a call whose retries ran out
RetriesRanOut == probe # << >> /\ probe.fn = "do"

\* C13 as claimed: the RetryAfter of the RateLimitError is
\* base_delay * 2^max_retries in seconds.
C13_RetryAfterIsTheProduct ==
  RetriesRanOut
  => /\ probe.out.kind = "RateLimitError"
     /\ Mul(probe.out.retryAfter, Int64(Second))
          = Shl(probe.baseDelay, probe.maxRetries)

\* 2^24 seconds
Seconds2To24 == Mul(Shl(One64, 24), Int64(Second))

\* the product bd * 2^mr is under 2^24 seconds: no doubling of bd up to the
\* mr-th reaches them (and so none wraps)
ProductUnder2To24(bd, mr) ==
  \A k \in 0 .. mr :
    Positive(Shl(bd, k)) /\ Less(Shl(bd, k), Seconds2To24)

\* C13 as amended: the RetryAfter is base_delay * 2^max_retries in whole
\* seconds, the fraction of a second dropped (0 when the product is under
\* one second), for every base delay and retry budget whose product is
\* under 2^24 seconds; and it is computed from the policy only: every call
\* that exhausts the retries of a Client with the same base delay and retry
\* budget reports the same value, whatever the 429s said.
C13_RetryAfterWholeSeconds ==
  RetriesRanOut
  => LET product == Shl(probe.baseDelay, probe.maxRetries)
         secs == probe.out.retryAfter
         rest == Sub(product, Mul(secs, Int64(Second)))
     IN /\ probe.out.kind = "RateLimitError"
        /\ ProductUnder2To24(probe.baseDelay, probe.maxRetries)
             => /\ ~IsNeg(secs)
                /\ Less(secs, Shl(One64, 24))
                /\ ~IsNeg(rest)
                /\ Less(rest, Int64(Second))
        /\ \A p \in LastAttempts :
             (p.baseDelay = probe.baseDelay /\ p.maxRetries = probe.maxRetries)
             => p.out = probe.out

\* a Client with a base delay of 1.5 s and no retries reported 1 second
C13_Witness ==
  /\ RetriesRanOut
  /\ probe.baseDelay = Int64(Second + Second \div 2)
  /\ probe.maxRetries = 0
  /\ probe.body = "detail"
  /\ probe.out = RateLimitError(One64)

\* a 4xx status other than 401, 403 and 429
OtherClientError(n) == n >= 400 /\ n < 500 /\ n \notin {401, 403, 429}

\* C14 as claimed: a call whose response is a 4xx other than 401, 403 and
\* 429 has made one network attempt, returns the APIError with that status,
\* and has left the breaker's counter and timestamp as they were.
C14_OtherClientErrorUntouched ==
  \A c \in Callers :
    LET cr == call[c] IN
      (/\ Len(cr.seen) = 1
       /\ OtherClientError(cr.seen[1]))
      => /\ cr.pc = "done"
         /\ cr.sent = 1
         /\ cr.err.kind = "APIError"
         /\ cr.err.code = cr.seen[1]
         /\ ~cr.touched

\* C14 as amended: a 4xx other than 401, 403 and 429 ends the call with the
\* raw APIError of that status and no retry, after exactly one network
\* attempt when it is the call's first response, and reading it changes
\* neither the counter nor the timestamp.  Over the whole call the breaker
\* is unchanged too, unless the call was entered with the counter at the
\* threshold and the cooldown elapsed: isOpen then set the counter to zero.
C14_OtherClientErrorNoEffect ==
  [][\A c \in Callers :
       (/\ call[c].pc = "attempt"
        /\ Len(call'[c].seen) = Len(call[c].seen) + 1
        /\ OtherClientError(call'[c].seen[Len(call'[c].seen)]))
       => /\ call'[c].pc = "done"
          /\ call'[c].err.kind = "APIError"
          /\ call'[c].err.code = call'[c].seen[Len(call'[c].seen)]
          /\ call'[c].sent = call[c].sent + 1
          /\ (call[c].seen = << >> => call'[c].sent = 1)
          /\ failures' = failures
          /\ lastFailure' = lastFailure
          /\ (call'[c].touched => call[c].gate = "cooled")]_vars

\* a call answered 404 has returned the APIError with its body, and the
\* failures recorded before it are still counted
C14_Witness ==
  \E c \in Callers :
    /\ call[c].pc = "done"
    /\ call[c].seen = <<404>>
    /\ call[c].err = APIError(404, "detail")
    /\ call[c].sent = 1
    /\ ~call[c].touched
    /\ failures = 3

\* C15: an attempt that fails with anything but an APIError (the request
\* could not be encoded or built, the transport failed or refused, the
\* context ended during the exchange, the body could not be read or
\* decoded) ends the call there with that error, whatever is left of the
\* retry budget, and the counter and the timestamp stay as they are.
C15_NonAPIFailureEndsCall ==
  [][\A c \in Callers :
       (/\ call[c].pc = "attempt"
        /\ call'[c].pc # "attempt"
        /\ call'[c].seen = call[c].seen)
       => /\ call'[c].pc = "done"
          /\ call'[c].err.kind = "wrapped"
          /\ call'[c].sent <= call[c].sent + 1
          /\ failures' = failures
          /\ lastFailure' = lastFailure]_vars

\* the retry after a 429 could not be decoded: the call ended with one
\* retry still left, and the two failures counted before are still counted
C15_Witness ==
  \E c \in Callers :
    /\ call[c].pc = "done"
    /\ call[c].seen = <<429>>
    /\ call[c].sent = 2
    /\ call[c].attempt = 1
    /\ maxRetries = 2
    /\ call[c].err = Wrapped("unexpected API response format", "")
    /\ failures = 2

\* C16: the step in which a call returns nil sets the failure counter to
\* zero, whatever it was (below the threshold, at it or over it, cooldown
\* running or not) and whatever other goroutines did meanwhile; the
\* timestamp of the last failure is kept.
C16_SuccessZeroesCounter ==
  [][\A c \in Callers :
       (/\ call[c].pc = "attempt"
        /\ call'[c].pc = "done"
        /\ call'[c].err = Nil)
       => /\ failures' = 0
          /\ lastFailure' = lastFailure]_vars

\* a call that found the breaker closed has returned nil and thereby
\* cleared failures that were on the counter, while another goroutine
\* stands refused by the open breaker
C16_Witness ==
  \E c, d \in Callers :
    /\ c # d
    /\ call[c].pc = "done"
    /\ call[c].err = Nil
    /\ call[c].gate = "closed"
    /\ call[c].touched
    /\ failures = 0
    /\ call[d].pc = "done"
    /\ call[d].gate = "open"

\* C17: a call is refused with CircuitBreakerError exactly when, as do is
\* entered, the counter is at 5 or more and no more than the cooldown has
\* passed since the last recorded failure; so with fewer than 5 failures
\* counted no call is refused.  The breaker goes from closed to open in the
\* step that records the failure taking the counter from 4 to 5, and every
\* such step opens it.
C17_OpenExactlyAtThreshold ==
  [][/\ \A c \in Callers :
          Enters(c)
          => ((call'[c].pc = "done" /\ call'[c].err = CircuitBreakerError)
              <=> (/\ failures >= maxFailures
                   /\ Since(lastFailure, now) <= resetTimeout))
     /\ (/\ Standing(failures, lastFailure, now) = "closed"
         /\ Standing(failures', lastFailure', now') = "open")
        => (/\ failures = maxFailures - 1
            /\ failures' = maxFailures
            /\ lastFailure' = now)
     /\ (failures = maxFailures - 1 /\ failures' = maxFailures)
        => Standing(failures', lastFailure', now') = "open"]_vars

\* a call made exactly 30 s after the fifth failure was refused
C17_Witness ==
  \E c \in Callers :
    /\ call[c].pc = "done"
    /\ call[c].err = CircuitBreakerError
    /\ failures = maxFailures
    /\ now = lastFailure + resetTimeout


\* the isOpen check of a call entered after the cooldown zeroes the counter,
\* keeps the timestamp and lets the call through; if that call fails with
\* 401, 403 or a status of 500 or more, the counter is 1 and the breaker
\* closed
LazyFullReset ==
  \A c \in Callers :
    /\ (/\ Enters(c)
        /\ failures >= maxFailures
        /\ Since(lastFailure, now) > resetTimeout)
       => /\ failures' = 0
          /\ lastFailure' = lastFailure
          /\ call'[c].pc = "attempt"
    /\ (/\ call[c].gate = "cooled"
        /\ call[c].pc = "attempt"
        /\ call'[c].pc = "done"
        /\ BreakerFailure(call'[c].err))
       => /\ failures' = 1
          /\ Standing(failures', lastFailure', now') = "closed"

\* C18 as claimed: the first isOpen check after the cooldown is a full
\* reset, the failure of the call it lets through leaves the counter at 1
\* and the breaker closed, and the breaker is not open again before five
\* further calls have failed.
C18_FiveFurtherToReopen ==
  [][/\ LazyFullReset
     /\ (seq'.failed /\ Standing(failures', lastFailure', now') # "closed")
        => seq'.further >= 5]_vars

\* C18 as amended: the first isOpen check after the cooldown is a full
\* reset, the failure of the call it lets through leaves the counter at 1
\* and the breaker closed, and four further failures reopen the breaker:
\* each adds one to the counter, and the breaker is closed until the
\* fourth and open from it on.
C18_FullResetAfterCooldown ==
  [][/\ LazyFullReset
     /\ seq'.failed
        => /\ failures' = 1 + seq'.further
           /\ Standing(failures', lastFailure', now') # "closed"
                <=> seq'.further >= 4]_vars

\* the call let through after the cooldown failed, four more calls failed
\* after it, and the breaker is open again
C18_Witness ==
  /\ seq.failed
  /\ seq.further = 4
  /\ failures = maxFailures
  /\ Standing(failures, lastFailure, now) = "open"
  /\ \E c \in Callers :
       /\ call[c].pc = "done"
       /\ call[c].gate = "closed"
       /\ BreakerFailure(call[c].err)

\* C19: whatever is done through one Client (constructing it, a call that
\* it refuses, a call that ends in success, in a counted failure or in
\* neither), the breaker of every other Client keeps its counter and its
\* timestamp, and so its answer to isOpen.
C19_BreakerPerClient ==
  [][\A j \in DOMAIN clients :
       j # actor'
       => /\ BreakerOf(heap', clients', j) = BreakerOf(heap, clients, j)
          /\ isOpen(BreakerOf(heap', clients', j).failures,
                    BreakerOf(heap', clients', j).lastFailure, now').open
             = isOpen(BreakerOf(heap, clients, j).failures,
                      BreakerOf(heap, clients, j).lastFailure, now').open]_vars

\* one Client's breaker is open after five failures while the other
\* Client, used last, has a single failure counted
C19_Witness ==
  /\ Len(clients) = 2
  /\ actor = 2
  /\ BreakerOf(heap, clients, 1).failures = maxFailures
  /\ isOpen(BreakerOf(heap, clients, 1).failures,
            BreakerOf(heap, clients, 1).lastFailure, now).open
  /\ BreakerOf(heap, clients, 2).failures = 1

\* the computation probe holds is the decoding of a payload sent in an
\* envelope
DecodedEnvelope == probe # << >> /\ probe.fn = "decode" /\ probe.wrapped

\* C20: a payload that decodes into the destination decodes into it to the
\* same value when it is sent as {"data": payload}, for the map, the structs
\* and the slice the client decodes into.
C20_EnvelopeTolerance ==
  (DecodedEnvelope /\ ~probe.plain.err) => probe.out = probe.plain


\* the computation probe holds is the rendering of an APIError
Rendered == probe # << >> /\ probe.fn = "Error"

\* the members of text that carry a sensitive name
Sensitive(text) ==
  {i \in 1 .. Len(text) :
     text[i].k = "member" /\ ToLower(text[i].key) \in SensitiveKeys}

\* the truncation marker ends the text, and stands nowhere else in it
Marked(text) ==
  /\ text # << >>
  /\ \A i \in 1 .. Len(text) : (text[i].k = "mark") <=> (i = Len(text))

Unmarked(text) == \A i \in 1 .. Len(text) : text[i].k # "mark"

\* the characters of text; a character cut in the middle shows as one
RECURSIVE CharLen(_)
CharLen(text) ==
  IF text = << >> THEN 0
  ELSE LET s == Head(text) IN
         (IF s.k = "fill" THEN s.n + (IF s.whole THEN 0 ELSE 1) ELSE s.bytes)
         + CharLen(Tail(text))

\* C21: every rendering of an APIError is redacted: for every body, of any
\* length, each member of a sensitive name (in any letter case) with a
\* string value is rendered with its name kept, the marker [REDACTED] in
\* place of the value, and no part of the value readable.
C21_RenderingRedacted ==
  Rendered
  => /\ Cardinality(Sensitive(probe.out.text))
          = Cardinality(Sensitive(probe.body))
     /\ \A i \in Sensitive(probe.out.text) :
          /\ probe.out.text[i].red
          /\ probe.out.text[i].shown = 0

\* C22 as stated, in characters: a body of more than 500 characters is
\* rendered with the marker after at most 500 of its characters, a body of
\* 500 characters or fewer is rendered without the marker.
C22_TruncatedByCharacters ==
  Rendered
  => IF CharLen(probe.body) > maxErrorBodyLength
     THEN /\ Marked(probe.out.text)
          /\ CharLen(probe.out.text) - Mark.n <= maxErrorBodyLength
     ELSE Unmarked(probe.out.text)

\* C22: a body of more than 500 bytes is rendered as its first 500 bytes
\* (redacted) followed by the truncation marker; a body of 500 bytes or
\* fewer is rendered whole (redacted) and without the marker.
C22_TruncatedByBytes ==
  Rendered
  => IF ByteLen(probe.body) > maxErrorBodyLength
     THEN /\ Marked(probe.out.text)
          /\ ByteLen(probe.out.text) = maxErrorBodyLength
     ELSE /\ Unmarked(probe.out.text)
          /\ ByteLen(probe.out.text) = ByteLen(probe.body)

\* a body of 300 two-byte characters is cut to its first 250 and marked
C22_Witness ==
  /\ Rendered
  /\ probe.body = <<Fill(300, 2)>>
  /\ probe.out.text = <<Fill(250, 2), Mark>>


\* the computation probe holds is the construction of a Client
Constructed == probe # << >> /\ probe.fn = "NewWithOptions"

\* C23: base URL normalization is idempotent, normalize(normalize(u)) =
\* normalize(u) for every URL u, and the four forms h, h/, h/api and h/api/
\* of one host all normalize to h/api.
C23_NormalizeIdempotent ==
  Constructed
  => /\ probe.again = probe.out
     /\ probe.url \in {<<"h">>, <<"h", "/">>, <<"h", "/", "api">>,
                       <<"h", "/", "api", "/">>}
        => probe.out = <<"h", "/", "api">>

\* h/api/ is given: the Client's BaseURL is h/api, and a Client made from
\* that BaseURL has h/api again
C23_Witness ==
  /\ Constructed
  /\ probe.url = <<"h", "/", "api", "/">>
  /\ probe.out = <<"h", "/", "api">>
  /\ probe.again = <<"h", "/", "api">>

\* u is a host, perhaps followed by /api, followed by any number of slashes
UserSupplied(u) ==
  \E k \in 0 .. Len(u) :
    /\ \A i \in (Len(u) - k + 1) .. Len(u) : u[i] = "/"
    /\ SubSeq(u, 1, Len(u) - k) \in {<<"h">>, <<"h", "/", "api">>}

\* C24: for every user-supplied base URL, with any number of slashes at its
\* end and with or without /api before them, the Client's BaseURL is the
\* host followed by exactly one /api: no slash at the end, no second /api,
\* no empty segment.
C24_ExactlyOneApiSegment ==
  (Constructed /\ UserSupplied(probe.url))
  => probe.out = <<"h", "/", "api">>


\* the computation probe holds is the exit code of a failed command
Exited == probe # << >> /\ probe.fn = "ExitCode"

\* the exit code the README gives for a concrete error
Documented(e) ==
  CASE e = <<"ValidationError">> -> 2
    [] e = <<"AuthError">> -> 3
    [] e = <<"RateLimitError">> -> 4
    [] e = <<"ErrNotConfigured">> -> 5
    [] e = <<"CircuitBreakerError">> -> 6
    [] e \in {<<"DeadlineExceeded">>, <<"net.timeout">>} -> 7
    [] OTHER -> 1

\* C25: ExitCode is total and decided by the concrete error of the chain,
\* whatever fmt.Errorf layers are wrapped around it: validation 2, auth 3,
\* rate limit 4, not configured 5, circuit breaker 6, deadline exceeded or
\* a timing-out net error 7, every other error (a raw APIError,
\* context.Canceled) 1.
C25_ExitCodeStable ==
  Exited
  => /\ probe.out \in 1 .. 7
     /\ probe.out = Documented(probe.err)
     /\ probe.out = probe.bare

\* an AuthError under two fmt.Errorf layers exits with 3
C25_Witness ==
  /\ Exited
  /\ probe.err = <<"AuthError">>
  /\ probe.wraps = 2
  /\ probe.out = 3


\* the request in hand is a webhook request with something wrong that can
\* be seen locally: a URL that does not parse, is not http(s) or names this
\* host or a private, loopback or link-local address; no events (create);
\* an event type that is not supported.  UpdateWebhook is given a URL when
\* the URL is not "".
Malformed(u) == ~u.parses \/ u.scheme \notin {"http", "https"}

Disallowed(u) ==
  u.host \in {"localhost", "127.0.0.1", "::1", "10.0.0.1", "169.254.169.254"}

Unsupported(events) ==
  \E i \in 1 .. Len(events) : events[i] \notin ValidWebhookEvents

BadRequest(r) ==
  \/ /\ r.op = "CreateWebhook"
     /\ (Malformed(r.url) \/ Disallowed(r.url) \/ r.events = << >>
         \/ Unsupported(r.events))
  \/ /\ r.op = "UpdateWebhook"
     /\ \/ ~r.url.empty /\ (Malformed(r.url) \/ Disallowed(r.url))
        \/ Unsupported(r.events)

\* C26: CreateWebhook or UpdateWebhook given a malformed or disallowed URL,
\* no events (create) or an unsupported event type returns a
\* ValidationError at once: no network attempt is made and the breaker is
\* left as it was, however it stands; and a ValidationError is never
\* returned after an attempt.
C26_ValidationBeforeNetwork ==
  [][\A c \in Callers :
       /\ (call[c].pc = "idle" /\ call'[c].pc # "idle" /\ BadRequest(probe'))
          => /\ call'[c].pc = "done"
             /\ call'[c].err.kind = "ValidationError"
             /\ call'[c].sent = 0
             /\ failures' = failures
             /\ lastFailure' = lastFailure
       /\ call'[c].err.kind = "ValidationError"
          => call'[c].sent = 0 /\ ~call'[c].touched]_vars

\* CreateWebhook with a loopback URL returned a ValidationError while the
\* breaker is open; a call of do would be refused by the breaker
C26_Witness ==
  /\ call["g1"].pc = "done"
  /\ call["g1"].err = ValidationError("url", "private/loopback IP addresses not allowed")
  /\ call["g1"].sent = 0
  /\ probe.op = "CreateWebhook"
  /\ failures = maxFailures
  /\ Standing(failures, lastFailure, now) = "open"

\* C27: every request a POST puts on the network carries an Idempotency-Key
\* and no request of a GET, PUT or DELETE does; the key is made anew for
\* each attempt, no two attempts of one call carry the same key.
C27_IdempotencyKeyPerAttempt ==
  \A c \in Callers :
    /\ Len(probe.keys) = call[c].sent
    /\ \A i \in 1 .. Len(probe.keys) :
         (probe.keys[i] # 0) <=> (probe.method = "POST")
    /\ \A i, k \in 1 .. Len(probe.keys) :
         (probe.method = "POST" /\ i # k) => probe.keys[i] # probe.keys[k]

\* a POST answered 429 and then 200 sent two requests, with two keys
C27_Witness ==
  /\ call["g1"].pc = "done"
  /\ call["g1"].seen = <<429, 200>>
  /\ probe.method = "POST"
  /\ Len(probe.keys) = 2
  /\ probe.keys[1] # probe.keys[2]
  /\ probe.keys[1] # 0

\* the last response of the call in hand
Answered(lo, hi, b) ==
  /\ probe.resp.kind = "response"
  /\ probe.resp.status \in lo .. hi
  /\ probe.resp.body = b

\* C28: a call whose answer is a success with a body of no bytes returns no
\* error and leaves the destination as it was when the call was made; a
\* destination that was unset stays unset.
C28_EmptyBodyLeavesDestination ==
  \A c \in Callers :
    (call[c].pc = "done" /\ \E s \in Statuses : s < 400 /\ Answered(s, s, ""))
    => /\ probe.got = Nil
       /\ call[c].err = Nil
       /\ probe.result = probe.before

\* a GET into a nil map was answered with no body: no error, the map is nil
C28_Witness ==
  /\ call["g1"].pc = "done"
  /\ call["g1"].err = Nil
  /\ Answered(200, 200, "")
  /\ probe.method = "GET"
  /\ probe.before = Zero("map[string]string")
  /\ probe.result = Zero("map[string]string")

\* C29: an answer of status 400 or more is not decoded: doOnce returns an
\* APIError with the status and the body as received, and the destination
\* is as it was when the call was made, after every 429 of a retried call
\* as well.
C29_ErrorStatusNotDecoded ==
  \A s \in Statuses, b \in Bodies :
    (s >= 400 /\ Answered(s, s, b))
    => /\ probe.got = APIError(s, b)
       /\ probe.result = probe.before

\* a call into a map that holds an entry was answered 429 with a body and
\* sleeps before its next attempt: the map is as it was
C29_Witness ==
  /\ Asleep(call["g1"])
  /\ Answered(429, 429, "detail")
  /\ probe.got = APIError(429, "detail")
  /\ probe.before = Preset
  /\ probe.result = Preset

\* C30: for every base delay > 0 and every attempt a below the retry
\* budget, a 429 on attempt a is followed by a sleep of d + j with
\* d = base_delay * 2^a and 0 <= j < d/2, and the computation never fails.
C30_BackoffArithmetic ==
  \A c \in Callers :
    LET cr == call[c]
        d == Shl(baseDelay, cr.attempt)
    IN /\ cr.pc # "panic"
       /\ ~crashed
       /\ Asleep(cr) => /\ \A k \in 0 .. cr.attempt : Positive(Shl(baseDelay, k))
                        /\ cr.timer.least = d
                        /\ ~IsNeg(Sub(cr.timer.most, d))
                        /\ Less(Sub(cr.timer.most, d), Quo(d, 2).q)
                        /\ Positive(cr.timer.least)


\* the computation probe holds is an error written in JSON or NDJSON
WrittenJSON ==
  probe # << >> /\ probe.fn = "WriteError" /\ probe.output \in {"json", "ndjson"}

\* C31: in JSON and NDJSON the error output carries the error's kind, an
\* exit_code equal to ExitCode(err), and a retry_after_seconds member
\* exactly when the error is a RateLimitError, with the RateLimitError's
\* RetryAfter as its value.
C31_MachineReadableError ==
  WrittenJSON
  => LET pl == probe.out.payload IN
       /\ probe.out.format = "json"
       /\ {"type", "exit_code"} \subseteq DOMAIN pl
       /\ pl["type"] = classifyError(probe.err)
       /\ pl["exit_code"] = ExitCode(probe.err)
       /\ ("retry_after_seconds" \in DOMAIN pl)
            <=> (probe.err = <<"RateLimitError">>)
       /\ probe.err = <<"RateLimitError">>
            => pl["retry_after_seconds"] = probe.retryAfter

\* a RateLimitError with RetryAfter 2 under two fmt.Errorf layers, written
\* as NDJSON
C31_Witness ==
  /\ WrittenJSON
  /\ probe.output = "ndjson"
  /\ probe.err = <<"RateLimitError">>
  /\ probe.wraps = 2
  /\ probe.out.payload["retry_after_seconds"] = 2
  /\ probe.out.payload["exit_code"] = 4
  /\ probe.out.payload["type"] = "rate_limit"


\* the call is inside do's loop
InLoop(cr) == cr.pc \in {"attempt", "select", "parked"}

\* C32: whatever the server answers and whenever the context ends, a call
\* comes to its end (it returns, or the process dies in it) after at most
\* max_retries+1 network attempts, and every attempt but the first follows
\* a 429 answer to the attempt before it: a call about to make attempt a+1
\* has made a attempts, each answered 429.
C32_CallTerminates ==
  /\ [](\A c \in Callers :
          LET cr == call[c] IN
            /\ cr.sent <= maxRetries + 1
            /\ cr.attempt <= maxRetries
            /\ InLoop(cr)
               => /\ cr.sent = cr.attempt + (IF cr.pc = "attempt" THEN 0 ELSE 1)
                  /\ Len(cr.seen) = cr.sent
                  /\ AllRateLimited(cr.seen))
  /\ \A c \in {"g1"} : InLoop(call[c]) ~> (call[c].pc \in {"done", "panic"})

\* a call with a retry budget of 2 was answered 429 three times and ended
\* after its third attempt
C32_Witness ==
  /\ maxRetries = 2
  /\ call["g1"].pc = "done"
  /\ call["g1"].sent = 3
  /\ call["g1"].seen = <<429, 429, 429>>


\* C33 as stated: in every reachable state, for any number of goroutines
\* sharing the Client, 0 <= failures <= 5.
C33_CounterWithinThreshold ==
  failures >= 0 /\ failures <= maxFailures

\* C33 as amended: with n goroutines sharing the Client the counter is
\* never negative and never over 4 + n, that is 5 with one goroutine and 6
\* with two.  The breaker is asked when a call is entered only, so a call
\* admitted below the threshold records its failure after another has
\* reached it.
C33_CounterBounded ==
  /\ failures >= 0
  /\ failures <= maxFailures - 1 + Cardinality(Callers)

\* two calls were admitted with four failures on the counter and both
\* failed: the counter stands at six
C33_Witness ==
  /\ Cardinality(Callers) = 2
  /\ failures = maxFailures + 1
  /\ \A c \in Callers :
       /\ call[c].pc = "done"
       /\ call[c].gate = "closed"
       /\ BreakerFailure(call[c].err)


\* C34: an open breaker becomes closed only through the cooldown elapsing:
\* no step of any goroutine, the successful end of a call admitted before
\* the breaker opened included, takes the breaker from open to closed while
\* the cooldown runs.
C34_ClosesOnlyByCooldown ==
  [][~(/\ Standing(failures, lastFailure, now) = "open"
       /\ Standing(failures', lastFailure', now') = "closed")]_vars


\* C35: the failure counter counts consecutive breaker-relevant failures:
\* at every point it is the number of calls that ended in 401, 403 or a
\* status of 500 or more since the last successful call and the last
\* cooldown reset; calls that end in 429, another 4xx or an error that is
\* no API error neither add to it nor reset it.
C35_CounterCountsFailures ==
  failures = seq

\* two failures are counted, and a call that ended in a RateLimitError and
\* one that ended in a 404 since have left them counted
C35_Witness ==
  /\ failures = 2
  /\ call["g1"].pc = "done"
  /\ call["g1"].err.kind = "RateLimitError"
  /\ call["g2"].pc = "done"
  /\ call["g2"].err = APIError(404, "")


\* do returns CircuitBreakerError to goroutine c in this step
Refuses(c) ==
  /\ call[c].pc # "done"
  /\ call'[c].pc = "done"
  /\ call'[c].err = CircuitBreakerError

\* C36 as claimed: a refused call leaves the counter and the timestamp of
\* the last failure as they were, and the breaker is closed no later than
\* 30 s after the last recorded failure: a call entered 30 s or more after
\* it is not refused.
C36_ClosedWithinCooldown ==
  [][\A c \in Callers :
       /\ Refuses(c) => (failures' = failures /\ lastFailure' = lastFailure)
       /\ (Enters(c) /\ Since(lastFailure, now) >= resetTimeout) => ~Refuses(c)]_vars

\* C36: a call refused with CircuitBreakerError leaves the counter and the
\* timestamp of the last failure as they were and makes no attempt, so the
\* refused calls do not prolong the cooldown: however many calls were
\* refused meanwhile, a call entered more than 30 s after the last recorded
\* failure is not refused.
C36_RefusalKeepsCooldown ==
  [][\A c \in Callers :
       /\ Refuses(c)
          => /\ failures' = failures
             /\ lastFailure' = lastFailure
             /\ call'[c].sent = 0
       /\ (Enters(c) /\ Since(lastFailure, now) > resetTimeout) => ~Refuses(c)]_vars

\* one goroutine's call was refused and the other's, entered 31 s after the
\* last recorded failure, was let through
C36_Witness ==
  /\ call["g2"].pc = "done"
  /\ call["g2"].err = CircuitBreakerError
  /\ call["g2"].gate = "open"
  /\ call["g1"].gate = "cooled"
  /\ call["g1"].pc = "attempt"
  /\ failures = 0
  /\ now = lastFailure + resetTimeout + 1


\* a body was decoded
DecodedBody == probe # << >> /\ probe.fn = "decode"

\* the text without the ellipsis at its end
Shown(text) == SelectSeq(text, LAMBDA r : r.k # "dots")

\* C37: decoding the whole body into the destination comes first: when it
\* succeeds the destination holds what it gave and no error is returned,
\* and the value under "data" is decoded only when it fails; so a
\* MergePDFsResponse is filled from the whole body {"data": "..."}.  When
\* both fail, the error returned shows the body: all of it when it has at
\* most 100 bytes, otherwise its first 100 bytes (at most 100 characters)
\* and an ellipsis.
C37_DirectDecodingFirst ==
  DecodedBody
  => LET direct == Unmarshal(probe.body, Zero(probe.type))
         unwraps == probe.body.t = "object" /\ "data" \in DOMAIN probe.body.kv
     IN /\ ~direct.err => (probe.out = direct /\ probe.err = Nil)
        /\ (direct.err /\ unwraps
              /\ ~Unmarshal(probe.body.kv["data"], direct.v).err)
           => /\ probe.out = Unmarshal(probe.body.kv["data"], direct.v)
              /\ probe.err = Nil
        /\ (probe.type = "MergePDFsResponse" /\ unwraps
              /\ probe.body.kv["data"].t = "string")
           => /\ probe.out.v.m["data"] = probe.body.kv["data"].s
              /\ probe.err = Nil
        /\ probe.err # Nil
           <=> (direct.err /\ (unwraps
                  => Unmarshal(probe.body.kv["data"], direct.v).err))
        /\ probe.err # Nil
           => /\ CharLen(Shown(probe.err.got)) <= previewLength
              /\ ByteLen(probe.err.got) <= previewLength
              /\ IF ByteLen(probe.text) > previewLength
                   THEN /\ probe.err.got[Len(probe.err.got)] = Dots
                        /\ ByteLen(probe.err.got) = previewLength
                        /\ Shown(probe.err.got) = Slice(probe.text, previewLength)
                   ELSE probe.err.got = probe.text

\* a MergePDFsResponse took its data from the whole body
C37_Witness ==
  /\ DecodedBody
  /\ probe.type = "MergePDFsResponse"
  /\ probe.body = Envelope(JString("JVBERi0"))
  /\ probe.out.v.m["data"] = "JVBERi0"
  /\ probe.err = Nil


\* the exit code of a call ended by the context's error x
ContextCode(x) == IF x = "DeadlineExceeded" THEN 7 ELSE 1

\* C38: a call ended by its context is classified by the context's error:
\* when the deadline passes, during the exchange (c.HTTP.Do or the reading
\* of the body) or during a backoff wait, the error do returns has exit
\* code 7, and when the context is cancelled it has exit code 1.
C38_DeadlineIsTimeout ==
  [][\A c \in Callers :
       /\ (call[c].pc \in {"select", "parked"} /\ call'[c].pc = "done")
          => /\ call'[c].ctx \in CtxErrs
             /\ ExitCode(Chain(call'[c].err)) = ContextCode(call'[c].ctx)
       /\ (/\ call[c].pc = "attempt"
           /\ call'[c].pc = "done"
           /\ call'[c].err.kind = "wrapped"
           /\ call'[c].err.cause \in CtxErrs)
          => ExitCode(Chain(call'[c].err)) = ContextCode(call'[c].err.cause)]_vars

\* the deadline passed during the backoff wait after a 429 and the call
\* returned context.DeadlineExceeded, exit code 7
C38_Witness ==
  \E c \in Callers :
    /\ call[c].pc = "done"
    /\ call[c].seen = <<429>>
    /\ call[c].err = CtxErr("DeadlineExceeded")
    /\ ExitCode(Chain(call[c].err)) = 7


\* the argument of the last option f of the list that is not ignored, and
\* dflt when there is none
Given(opts, f, least, dflt) ==
  LET kept == SelectSeq(opts, LAMBDA o : o.opt = f /\ ~Less(o.arg, least))
  IN IF kept = << >> THEN dflt ELSE kept[Len(kept)].arg

\* the call of goroutine c was let through by the breaker and has returned
Admitted(c) == call[c].pc = "done" /\ call[c].gate # "open"

\* the errors of a doOnce that did not get to the network: the body could
\* not be marshalled, the request not be created, or the context had ended
BeforeNetwork ==
  {Wrapped("failed to marshal request body", ""),
   Wrapped("failed to create request", "")}
  \cup {Wrapped("request failed", e) : e \in CtxErrs}

\* C39 as claimed: whatever the options, the Client has maxRetries >= 0 and
\* baseDelay > 0, the options with n < 0 or d <= 0 being ignored, and a call
\* on a closed breaker always makes at least one network attempt.
C39_AlwaysOneNetworkAttempt ==
  /\ maxRetries >= 0
  /\ Positive(baseDelay)
  /\ maxRetries
       = Num(Given(probe.opts, "WithRetries", Zero64, Int64(defaultMaxRetries)))
  /\ baseDelay = Given(probe.opts, "WithRetryBaseDelay", One64, defaultBaseDelay)
  /\ probe.timeout = Given(probe.opts, "WithTimeout", One64, defaultTimeout)
  /\ \A c \in Callers : Admitted(c) => call[c].sent >= 1

\* C39: whatever the options, the Client has maxRetries >= 0 and
\* baseDelay > 0: WithRetries(n < 0), WithRetryBaseDelay(d <= 0) and
\* WithTimeout(d <= 0) are ignored, and what was set before them (the
\* defaults 3, 1 s and 30 s if nothing was) is kept.  So a call on a closed
\* breaker always enters the loop and runs doOnce at least once: it
\* returns nil only after a request on the network, and it returns without
\* one only with the error of a doOnce that failed before the exchange.
C39_LoopEnteredOnce ==
  /\ maxRetries >= 0
  /\ Positive(baseDelay)
  /\ maxRetries
       = Num(Given(probe.opts, "WithRetries", Zero64, Int64(defaultMaxRetries)))
  /\ baseDelay = Given(probe.opts, "WithRetryBaseDelay", One64, defaultBaseDelay)
  /\ probe.timeout = Given(probe.opts, "WithTimeout", One64, defaultTimeout)
  /\ \A c \in Callers :
       Admitted(c) => (call[c].sent >= 1 \/ call[c].err \in BeforeNetwork)

\* WithRetries(1) and after it WithRetries(-1), which is ignored: the budget
\* is 1, the base delay the default, and a call ended after two attempts
C39_Witness ==
  /\ probe.opts = <<Option("WithRetries", Int64(1)),
                    Option("WithRetries", Int64(0 - 1))>>
  /\ maxRetries = 1
  /\ baseDelay = defaultBaseDelay
  /\ probe.timeout = defaultTimeout
  /\ Admitted("g1")
  /\ call["g1"].sent = 2

=============================================================================
